---- MODULE Spec2Model ----
(***************************************************************************)
(* A model of the MCP gateway (woxQAQ/mcp-gateway): the State build and    *)
(* its transport reuse (myunla/gateway/state.py), the backend transports'  *)
(* life cycle (myunla/gateway/transports), the request dispatcher and the  *)
(* SSE stream of a session (myunla/gateway/server.py) and the in-memory    *)
(* session queue (myunla/gateway/session/memory.py).                       *)
(***************************************************************************)
EXTENDS Integers, Sequences, FiniteSets, TLC

VARIABLES
    state,        \* GatewayServer.state: the State the dispatcher reads
    heap,         \* the Transport objects ever created; a transport's identity is its index
    hung,         \* the task running build_from_mcp is blocked for ever
    builds,       \* number of calls of build_from_mcp so far
    last_build,   \* history: the arguments and the outcome of the last call of build_from_mcp
    sessions,     \* MemoryStore._conns: the ids of the registered sessions
    conns,        \* the MemoryConnection objects ever created; a session's id is its index
    streams,      \* the event_generators: each one's session, position and the frames it wrote
    req,          \* the request handler in flight: its position, its locals and its response
    requests,     \* number of POST <prefix>/message requests so far
    log,          \* history: per session, the messages send() accepted and close() drained
    mem,          \* a MemoryStore: its _conns and the MemoryConnection objects it created
    red,          \* the Redis server's keys and channel, and the RedisStore of each replica
    handles,      \* the Connections register() and get() returned, one of each store
    op,           \* history: the last call on the two stores and what each answered
    now,          \* the clock datetime.now() reads
    post,         \* the last request of the dispatcher on the streamable endpoint, and its response
    ntf,          \* the notifiers: their objects, watcher queues and channels, and the last call
    loader        \* the reload in progress: the State the StateLoader returned, not yet published

build_vars == <<state, heap, hung, builds, last_build, loader>>

session_vars == <<sessions, conns, streams, log>>

request_vars == <<req, requests>>

store_vars == <<mem, red, handles, op, now>>

gateway_vars == <<build_vars, session_vars, request_vars>>

notifier_vars == <<ntf>>

vars ==
    <<state, heap, hung, builds, last_build, sessions, conns, streams, req, requests,
      log, mem, red, handles, op, now, post, ntf, loader>>

-----------------------------------------------------------------------------
(* Bounds of the model *)

\* calls of build_from_mcp in one behaviour
MaxBuilds == 2

\* GET <prefix>/sse requests in one behaviour
MaxSessions == 2

\* POST <prefix>/message requests in one behaviour
MaxRequests == 3

\* the capacity of a session's queue, asyncio.Queue(maxsize=100), scaled down
MaxQueue == 2

\* heartbeat frames on one stream
MaxHeartbeats == 1

\* GET <prefix>/mcp streams in one behaviour
MaxGetStreams == 1

\* calls on the session stores in one behaviour
MaxOps == 4

\* ticks of the clock in one behaviour
MaxTime == 1

\* requests on the streamable endpoint in one behaviour
MaxPosts == 2

\* calls of watch() on the notifiers
MaxWatches == 2

\* calls of notify_update() on the notifiers
MaxNotifies == 2

\* calls of NotifierFactory.create_notifier
MaxCreates == 1

\* reloads of the State in one behaviour
MaxReloads == 2

\* calls of close() on a notifier
MaxCloses == 1

\* the capacity of a watcher queue (asyncio.Queue(maxsize=10) in the source)
WatcherQueueSize == 1

-----------------------------------------------------------------------------
(* Optional values: Python's None and a present value *)

None == <<>>
Some(x) == <<x>>

\* an empty dict
EmptyDict == [k \in {} |-> k]

\* dict.get(key) with a default
DictGet(d, k, default) == IF k \in DOMAIN d THEN d[k] ELSE default

-----------------------------------------------------------------------------
(* The configuration (api/mcp.py) *)

Router(prefix, server) == [prefix |-> prefix, server |-> server, sse_prefix |-> ""]

HttpServer(name, tools) == [name |-> name, url |-> "http://u", tools |-> tools]

McpServer(name, type, command, url, args, policy, preinstalled) ==
    [name |-> name, type |-> type, command |-> command, url |-> url,
     args |-> args, policy |-> policy, preinstalled |-> preinstalled]

Tool(name, description) ==
    [name |-> name, description |-> description, path |-> "{{config.url}}/e",
     input_schema |-> "object"]

\* Tool.to_tool_type: the schema a Tool is listed with
to_tool_type(tool) ==
    [name |-> tool.name, description |-> tool.description,
     inputSchema |-> tool.input_schema]

Mcp(routers, http_servers, servers, tools) ==
    [routers |-> routers, http_servers |-> http_servers, servers |-> servers,
     tools |-> tools]

ON_START == "on_start"
ON_DEMAND == "on_demand"

-----------------------------------------------------------------------------
(* The configurations the model draws build_from_mcp's argument from *)

Prefixes == {"/t/a", "/t/b"}

\* the order in which a set of prefixes is walked
PrefixOrder == <<"/t/a", "/t/b">>

PrefixSeq(S) == SelectSeq(PrefixOrder, LAMBDA p : p \in S)

\* the MCP servers: one base server and its variants, one field changed at a time
ServerShapes ==
    { [type |-> "stdio", command |-> "foo --bar", url |-> "", args |-> <<>>],
      [type |-> "stdio", command |-> "foo --baz", url |-> "", args |-> <<>>],
      [type |-> "stdio", command |-> "foo --bar", url |-> "", args |-> <<"-v">>],
      [type |-> "stdio", command |-> "", url |-> "", args |-> <<>>],
      [type |-> "sse", command |-> "foo --bar", url |-> "", args |-> <<>>],
      [type |-> "sse", command |-> "foo --bar", url |-> "http://up", args |-> <<>>],
      [type |-> "streamable", command |-> "", url |-> "http://up", args |-> <<>>],
      [type |-> "grpc", command |-> "", url |-> "http://up", args |-> <<>>] }

StartModes ==
    { [policy |-> ON_START, preinstalled |-> FALSE],
      [policy |-> ON_DEMAND, preinstalled |-> FALSE],
      [policy |-> ON_DEMAND, preinstalled |-> TRUE] }

McpServers(name) ==
    { McpServer(name, sh.type, sh.command, sh.url, sh.args, m.policy, m.preinstalled) :
        sh \in ServerShapes, m \in StartModes }

BaseServer(name, policy) ==
    McpServer(name, "stdio", "foo --bar", "", <<>>, policy, FALSE)

ToolEcho == Tool("echo", "v1")
ToolEcho2 == Tool("echo", "v2")
ToolAdd == Tool("add", "v1")

\* HttpServer.tools: in order, reversed, with a repeated name, with a missing name
ToolNameLists ==
    { <<>>, <<"echo">>, <<"echo", "add">>, <<"add", "echo">>, <<"echo", "echo">>,
      <<"echo", "nope">> }

ConfigTools == { <<ToolEcho, ToolAdd>>, <<ToolEcho, ToolEcho2>> }

\* one MCP server routed at one prefix
McpConfigs ==
    { Mcp(<<Router("/t/a", "s1")>>, <<>>, <<s>>, <<>>) : s \in McpServers("s1") }

\* one HTTP server routed at one prefix
HttpConfigs ==
    { Mcp(<<Router("/t/a", "s1")>>, <<HttpServer("s1", tl)>>, <<>>, ts) :
        tl \in ToolNameLists, ts \in ConfigTools }

\* the edge cases of routing
EdgeConfigs ==
    { \* a Router whose server names no server of its Config
      Mcp(<<Router("/t/a", "s9")>>, <<>>, <<BaseServer("s1", ON_START)>>, <<>>),
      \* a server name used by an HTTPServer and by an MCPServer
      Mcp(<<Router("/t/a", "s1")>>, <<HttpServer("s1", <<"echo">>)>>,
          <<BaseServer("s1", ON_DEMAND)>>, <<ToolEcho>>),
      \* one server at two prefixes
      Mcp(<<Router("/t/a", "s1"), Router("/t/b", "s1")>>, <<>>,
          <<BaseServer("s1", ON_START)>>, <<>>),
      \* two servers of one name
      Mcp(<<Router("/t/a", "s1")>>, <<>>,
          <<BaseServer("s1", ON_START), BaseServer("s1", ON_DEMAND)>>, <<>>),
      \* another prefix
      Mcp(<<Router("/t/b", "s2")>>, <<>>, <<BaseServer("s2", ON_DEMAND)>>, <<>>),
      Mcp(<<Router("/t/b", "s2")>>, <<HttpServer("s2", <<"add">>)>>, <<>>,
          <<ToolEcho, ToolAdd>>) }

Configs == McpConfigs \cup HttpConfigs \cup EdgeConfigs

\* the config lists: none, one Config, and two Configs (which may route one prefix)
ConfigLists ==
    {<<>>} \cup { <<c>> : c \in Configs }
           \cup { <<c, d>> : c \in EdgeConfigs, d \in EdgeConfigs }

-----------------------------------------------------------------------------
(* Transports (myunla/gateway/transports) *)

\* shlex.split on the commands of the model; an empty or unparsable command has no words
parse_command(command) ==
    CASE command = "foo --bar" -> <<"foo", "--bar">>
      [] command = "foo --baz" -> <<"foo", "--baz">>
      [] OTHER -> <<>>

\* Transport.__init__ of the three transport classes
NewTransport(kind, server) ==
    [kind |-> kind, server |-> server, is_running |-> FALSE, conn |-> FALSE,
     cached |-> FALSE, locked |-> FALSE]

\* create_transport(mcp_server): a transport of the server's type, or an error
create_transport(h, server) ==
    IF server.type \in {"stdio", "sse", "streamable"}
    THEN [ok |-> TRUE, tid |-> Len(h) + 1,
          heap |-> Append(h, NewTransport(server.type, server))]
    ELSE [ok |-> FALSE, tid |-> 0, heap |-> h]

\* whether _create_transport (and, for streamable, entering the session) raises
create_connection_fails(t) ==
    CASE t.kind = "stdio" -> parse_command(t.server.command) = <<>>
      [] t.kind = "sse" -> FALSE
      [] OTHER -> t.server.type # "sse"

\* start(): under the transport's lock. A failure calls stop() while the lock
\* is held; asyncio.Lock is not reentrant, so the caller blocks for ever.
transport_start(t) ==
    IF t.locked THEN [t |-> t, out |-> "hang"]
    ELSE IF t.kind = "streamable"
    THEN IF t.conn THEN [t |-> t, out |-> "ok"]
         ELSE IF create_connection_fails(t)
              THEN [t |-> [t EXCEPT !.conn = TRUE, !.locked = TRUE], out |-> "hang"]
              ELSE [t |-> [t EXCEPT !.conn = TRUE], out |-> "ok"]
    ELSE IF t.is_running THEN [t |-> t, out |-> "ok"]
         ELSE IF create_connection_fails(t)
              THEN [t |-> [t EXCEPT !.locked = TRUE], out |-> "hang"]
              ELSE [t |-> [t EXCEPT !.conn = TRUE, !.is_running = TRUE], out |-> "ok"]

\* stop(): under the transport's lock
transport_stop(t) ==
    IF t.locked THEN [t |-> t, out |-> "hang"]
    ELSE IF t.kind = "streamable"
    THEN IF ~t.conn THEN [t |-> t, out |-> "ok"]
         ELSE [t |-> [t EXCEPT !.conn = FALSE, !.cached = FALSE], out |-> "ok"]
    ELSE IF ~t.is_running THEN [t |-> t, out |-> "ok"]
         ELSE [t |-> [t EXCEPT !.conn = FALSE, !.cached = FALSE, !.is_running = FALSE],
               out |-> "ok"]

\* the decorator transport_has_started: start the transport unless it is running;
\* the call then fails when there is no connection object
transport_has_started(t) ==
    LET started == IF t.is_running THEN [t |-> t, out |-> "ok"] ELSE transport_start(t)
    IN  IF started.out = "ok" /\ ~started.t.conn
        THEN [t |-> started.t, out |-> "raise"]
        ELSE started

\* fetch_tools(): list the backend's tools and cache them; backend_ok is whether
\* the backend answers. The streamable transport stops itself after listing.
fetch_tools(t, backend_ok) ==
    LET entered == transport_has_started(t)
    IN  IF entered.out # "ok" THEN entered
        ELSE IF ~backend_ok THEN [t |-> entered.t, out |-> "raise"]
        ELSE IF t.kind = "streamable"
             THEN transport_stop([entered.t EXCEPT !.cached = TRUE])
             ELSE [t |-> [entered.t EXCEPT !.cached = TRUE], out |-> "ok"]

\* the tools the backends of the model list
BackendTools == {"echo"}

\* _has_tool(tool_name): whether the tool is in the transport's tool cache
has_tool(t, name) == t.cached /\ name \in BackendTools

\* whether start() opens a session to the backend: the streamable start enters
\* its session and initializes it, the others only create the client
start_opens_session(t) ==
    /\ t.kind = "streamable"
    /\ ~t.locked
    /\ ~t.conn
    /\ ~create_connection_fails(t)

\* call_tools() up to the wait for the backend: the decorator, then the tool
\* cache; a tool that is not in the cache is answered without the backend, any
\* other enters the session ("session")
call_tools_enter(t, name) ==
    LET entered == transport_has_started(t)
    IN  IF entered.out # "ok" THEN entered
        ELSE IF ~has_tool(entered.t, name) THEN [t |-> entered.t, out |-> "not_found"]
        ELSE [t |-> entered.t, out |-> "session"]

\* call_tools() from the backend's answer on: an exception is answered with an
\* error result; the stdio and SSE transports stop themselves after a call
\* that succeeded
call_tools_leave(t, backend_ok) ==
    IF ~backend_ok THEN [t |-> t, out |-> "isError"]
    ELSE IF t.kind = "streamable" THEN [t |-> t, out |-> "ok"]
    ELSE LET stopped == transport_stop(t)
         IN  [t |-> stopped.t, out |-> stopped.out]

\* call_tools() when nothing else runs during the call
call_tools(t, name, backend_ok) ==
    LET entered == call_tools_enter(t, name)
    IN  IF entered.out # "session" THEN entered
        ELSE call_tools_leave(entered.t, backend_ok)

\* whether call_tools() opens a session to the backend
call_tools_opens_session(t, name) ==
    \/ ~t.is_running /\ start_opens_session(t)
    \/ call_tools_enter(t, name).out = "session"

\* whether fetch_tools() opens a session to the backend
fetch_tools_opens_session(t) ==
    \/ ~t.is_running /\ start_opens_session(t)
    \/ transport_has_started(t).out = "ok"


-----------------------------------------------------------------------------
(* State and Runtime (myunla/gateway/state.py) *)

\* the Runtime get_runtime creates for a prefix that has none
DefaultRuntime(prefix) ==
    [backend_proto |-> "http", router |-> Router(prefix, ""),
     http_server |-> None, mcp_server |-> None,
     tools |-> EmptyDict, tools_schema |-> <<>>, transport |-> 0]

EmptyState == [mcps |-> <<>>, runtime |-> EmptyDict]

\* State.get_runtime: the runtime map after the lookup, which adds a default Runtime
get_runtime(runtime, prefix) ==
    IF prefix \in DOMAIN runtime THEN runtime
    ELSE runtime @@ (prefix :> DefaultRuntime(prefix))

\* a protocol lookup that takes an unknown prefix for an HTTP one
get_proto_type_or_http(st, prefix) ==
    IF prefix \in DOMAIN st.runtime THEN Some(st.runtime[prefix].backend_proto)
    ELSE Some("http")

\* State.get_proto_type
get_proto_type(st, prefix) ==
    IF prefix \in DOMAIN st.runtime THEN Some(st.runtime[prefix].backend_proto) ELSE None

\* State.get_transport
get_transport(st, prefix) ==
    IF prefix \in DOMAIN st.runtime THEN st.runtime[prefix].transport ELSE 0

\* State.setRouter
setRouter(runtime, prefix, router) ==
    [get_runtime(runtime, prefix) EXCEPT ![prefix].router = router]

RECURSIVE set_routers(_, _, _)
set_routers(runtime, routers, i) ==
    IF i > Len(routers) THEN runtime
    ELSE set_routers(setRouter(runtime, routers[i].prefix, routers[i]), routers, i + 1)

\* State._build_prefix_map: server name -> its prefixes, without repetition
build_prefix_map(mcp) ==
    [s \in {mcp.routers[i].server : i \in DOMAIN mcp.routers} |->
        {mcp.routers[i].prefix : i \in {j \in DOMAIN mcp.routers : mcp.routers[j].server = s}}]

\* {tool.name: tool for tool in mcp.tools}: a later tool of the same name wins
tool_index(tools) ==
    [n \in {tools[i].name : i \in DOMAIN tools} |->
        LET is == {i \in DOMAIN tools : tools[i].name = n}
        IN  tools[CHOOSE i \in is : \A j \in is : j <= i]]

RECURSIVE allowed_tools_from(_, _, _, _)
allowed_tools_from(names, tools, i, acc) ==
    IF i > Len(names) THEN acc
    ELSE IF names[i] \in DOMAIN tools
         THEN allowed_tools_from(names, tools, i + 1,
                [allowed_tools |-> (names[i] :> tools[names[i]]) @@ acc.allowed_tools,
                 allowed_tool_schemas |->
                     Append(acc.allowed_tool_schemas, to_tool_type(tools[names[i]])),
                 missing_tools |-> acc.missing_tools])
         ELSE allowed_tools_from(names, tools, i + 1,
                [acc EXCEPT !.missing_tools = @ + 1])

\* State._build_allowed_tools
build_allowed_tools(server, tools) ==
    allowed_tools_from(server.tools, tools, 1,
        [allowed_tools |-> EmptyDict, allowed_tool_schemas |-> <<>>, missing_tools |-> 0])

RECURSIVE process_http_servers_from(_, _, _, _, _)
process_http_servers_from(runtime, servers, prefix_map, tools, i) ==
    IF i > Len(servers) THEN runtime
    ELSE LET server == servers[i]
             prefixes == DictGet(prefix_map, server.name, {})
             allowed == build_allowed_tools(server, tools)
             updated == [p \in DOMAIN runtime |->
                            IF p \in prefixes
                            THEN [runtime[p] EXCEPT !.backend_proto = "http",
                                                    !.http_server = Some(server),
                                                    !.tools = allowed.allowed_tools,
                                                    !.tools_schema = allowed.allowed_tool_schemas]
                            ELSE runtime[p]]
         IN  process_http_servers_from(updated, servers, prefix_map, tools, i + 1)

\* State._process_http_servers
process_http_servers(runtime, mcp, prefix_map, tools) ==
    process_http_servers_from(runtime, mcp.http_servers, prefix_map, tools, 1)

\* a comparison that forgets the command
same_server_config_without_command(old_server, mcp_server) ==
    /\ old_server.type = mcp_server.type
    /\ old_server.url = mcp_server.url
    /\ Len(old_server.args) = Len(mcp_server.args)
    /\ old_server.args = mcp_server.args

\* the comparison of _get_or_create_transport: the old and the new server agree
same_server_config(old_server, mcp_server) ==
    /\ old_server.type = mcp_server.type
    /\ old_server.command = mcp_server.command
    /\ old_server.url = mcp_server.url
    /\ Len(old_server.args) = Len(mcp_server.args)
    /\ old_server.args = mcp_server.args

\* the transport _get_or_create_transport takes from the old State (0: none)
reused_transport(mcp_server, prefix, old_state) ==
    IF /\ prefix \in DOMAIN old_state.runtime
       /\ old_state.runtime[prefix].mcp_server # None
       /\ same_server_config(old_state.runtime[prefix].mcp_server[1], mcp_server)
    THEN old_state.runtime[prefix].transport
    ELSE 0

\* State._get_or_create_transport
get_or_create_transport(h, mcp_server, prefix, old_state) ==
    LET transport == reused_transport(mcp_server, prefix, old_state)
    IN  IF transport # 0 THEN [ok |-> TRUE, tid |-> transport, heap |-> h]
        ELSE create_transport(h, mcp_server)

\* State._get_backend_proto_for_server
get_backend_proto_for_server(mcp_server) ==
    CASE mcp_server.type = "sse" -> "sse"
      [] mcp_server.type = "stdio" -> "stdio"
      [] mcp_server.type = "streamable" -> "streamable"
      [] OTHER -> "http"

\* a start that does not look at is_running first
start_mcp_server_unconditional(h, tid, keep_running) ==
    LET started == transport_start(h[tid])
        h1 == [h EXCEPT ![tid] = started.t]
    IN  IF started.out # "ok" \/ keep_running
        THEN [heap |-> h1, out |-> started.out]
        ELSE LET stopped == transport_stop(h1[tid])
             IN  [heap |-> [h1 EXCEPT ![tid] = stopped.t], out |-> stopped.out]

\* State._start_mcp_server
start_mcp_server(h, tid, keep_running) ==
    IF h[tid].is_running THEN [heap |-> h, out |-> "ok"]
    ELSE LET started == transport_start(h[tid])
             h1 == [h EXCEPT ![tid] = started.t]
         IN  IF started.out # "ok" \/ keep_running
             THEN [heap |-> h1, out |-> started.out]
             ELSE LET stopped == transport_stop(h1[tid])
                  IN  [heap |-> [h1 EXCEPT ![tid] = stopped.t], out |-> stopped.out]

\* State._handle_mcp_server_startup
handle_mcp_server_startup(h, mcp_server, tid) ==
    IF mcp_server.policy = ON_START THEN start_mcp_server(h, tid, TRUE)
    ELSE IF mcp_server.preinstalled THEN start_mcp_server(h, tid, FALSE)
    ELSE [heap |-> h, out |-> "ok"]

\* the body of the loop of State._create_mcp_runtimes, for one prefix
create_mcp_runtime(b, mcp_server, prefix, old_state) ==
    IF b.hung THEN b
    ELSE LET got == get_or_create_transport(b.heap, mcp_server, prefix, old_state)
         IN  IF ~got.ok
             THEN [b EXCEPT !.failed = @ \cup {prefix}]
             ELSE LET up == handle_mcp_server_startup(got.heap, mcp_server, got.tid)
                  IN  [runtime |-> [b.runtime EXCEPT
                                      ![prefix].backend_proto =
                                          get_backend_proto_for_server(mcp_server),
                                      ![prefix].mcp_server = Some(mcp_server),
                                      ![prefix].transport = got.tid],
                       heap |-> up.heap,
                       hung |-> up.out = "hang",
                       failed |-> IF up.out = "ok" THEN b.failed
                                  ELSE b.failed \cup {prefix}]

RECURSIVE create_mcp_runtimes(_, _, _, _, _)
\* State._create_mcp_runtimes
create_mcp_runtimes(b, mcp_server, prefixes, old_state, i) ==
    IF i > Len(prefixes) THEN b
    ELSE create_mcp_runtimes(create_mcp_runtime(b, mcp_server, prefixes[i], old_state),
                             mcp_server, prefixes, old_state, i + 1)

RECURSIVE process_mcp_servers_from(_, _, _, _, _)
process_mcp_servers_from(b, servers, prefix_map, old_state, i) ==
    IF i > Len(servers) THEN b
    ELSE process_mcp_servers_from(
            create_mcp_runtimes(b, servers[i],
                PrefixSeq(DictGet(prefix_map, servers[i].name, {})), old_state, 1),
            servers, prefix_map, old_state, i + 1)

\* State._process_mcp_servers
process_mcp_servers(b, mcp, prefix_map, old_state) ==
    process_mcp_servers_from(b, mcp.servers, prefix_map, old_state, 1)

\* the body of the loop of build_from_mcp, for one Config
build_one(b, mcp, old_state) ==
    IF b.hung THEN b
    ELSE LET tools == tool_index(mcp.tools)
             prefix_map == build_prefix_map(mcp)
             routed == set_routers(b.runtime, mcp.routers, 1)
             http == process_http_servers(routed, mcp, prefix_map, tools)
         IN  process_mcp_servers([b EXCEPT !.runtime = http], mcp, prefix_map, old_state)

RECURSIVE build_all(_, _, _, _)
build_all(b, mcps, old_state, i) ==
    IF i > Len(mcps) THEN b
    ELSE build_all(build_one(b, mcps[i], old_state), mcps, old_state, i + 1)

RECURSIVE cleanup_from(_, _, _, _)
cleanup_from(b, old_state, prefixes, i) ==
    IF i > Len(prefixes) \/ b.hung THEN b
    ELSE LET old_runtime == old_state.runtime[prefixes[i]]
         IN  IF \/ prefixes[i] \in DOMAIN b.runtime
                \/ old_runtime.mcp_server = None
                \/ old_runtime.transport = 0
             THEN cleanup_from(b, old_state, prefixes, i + 1)
             ELSE LET stopped == transport_stop(b.heap[old_runtime.transport])
                  IN  cleanup_from(
                        [b EXCEPT !.heap[old_runtime.transport] = stopped.t,
                                  !.hung = (stopped.out = "hang")],
                        old_state, prefixes, i + 1)

\* State._cleanup_unused_transports
cleanup_unused_transports(b, old_state) ==
    cleanup_from(b, old_state, PrefixSeq(DOMAIN old_state.runtime), 1)

\* State.build_from_mcp: the new runtime map, the transports after the build's
\* starts and stops, whether the build blocked, and the prefixes whose transport
\* could not be created or started
build_from_mcp(mcps, old_state, h) ==
    cleanup_unused_transports(
        build_all([runtime |-> EmptyDict, heap |-> h, hung |-> FALSE, failed |-> {}],
                  mcps, old_state, 1),
        old_state)

-----------------------------------------------------------------------------
(* Sessions (myunla/gateway/session/memory.py) *)

\* Message(event, data): data is the JSON-RPC envelope, its id and what it carries
Message(event, id, body) == [event |-> event, data |-> [id |-> id, body |-> body]]

\* Meta of a session
Meta(id, prefix, type) == [id |-> id, prefix |-> prefix, type |-> type]

\* MemoryConnection.__init__
MemoryConnection(meta) == [meta |-> meta, queue |-> <<>>, closed |-> FALSE]

\* MemoryConnection.send on a queue that has no maxsize
send_unbounded(c, message) ==
    IF c.closed THEN [c |-> c, ok |-> FALSE]
    ELSE [c |-> [c EXCEPT !.queue = Append(@, message)], ok |-> TRUE]

\* MemoryConnection.send with the message put at the head of the queue
send_at_head(c, message) ==
    IF c.closed THEN [c |-> c, ok |-> FALSE]
    ELSE IF Len(c.queue) >= MaxQueue THEN [c |-> c, ok |-> FALSE]
    ELSE [c |-> [c EXCEPT !.queue = <<message>> \o @], ok |-> TRUE]

\* MemoryConnection.send: fails on a closed connection and on a full queue,
\* else puts the message at the tail of the queue
send(c, message) ==
    IF c.closed THEN [c |-> c, ok |-> FALSE]
    ELSE IF Len(c.queue) >= MaxQueue THEN [c |-> c, ok |-> FALSE]
    ELSE [c |-> [c EXCEPT !.queue = Append(@, message)], ok |-> TRUE]

\* MemoryConnection.close that marks the connection closed and leaves its queue
close_without_drain(c) ==
    IF c.closed THEN [c |-> c, drained |-> <<>>]
    ELSE [c |-> [c EXCEPT !.closed = TRUE], drained |-> <<>>]

\* MemoryConnection.close: marks the connection closed and empties its queue
close(c) ==
    IF c.closed THEN [c |-> c, drained |-> <<>>]
    ELSE [c |-> [c EXCEPT !.closed = TRUE, !.queue = <<>>], drained |-> c.queue]

\* event_queue.get() that returns the head of the queue and leaves it there
event_queue_peek(c) == [c |-> c, event |-> Head(c.queue)]

\* event_queue.get() of the stream's loop, on a queue that is not empty
event_queue_get(c) == [c |-> [c EXCEPT !.queue = Tail(@)], event |-> Head(c.queue)]

\* MemoryStore.register with a fresh id (uuid4): the stores after it
register(ids, cs, meta) ==
    [sessions |-> ids \cup {meta.id}, conns |-> Append(cs, MemoryConnection(meta))]

\* MemoryStore.unregister of a registered id: close the connection, delete the id
unregister(ids, cs, id) ==
    LET closed == close(cs[id])
    IN  [sessions |-> ids \ {id}, conns |-> [cs EXCEPT ![id] = closed.c],
         drained |-> closed.drained]

\* a frame of the SSE stream: "event: <event>\ndata: <data>\n\n"
Frame(event, data) == [event |-> event, data |-> data]

\* the first frame of a stream: the URL messages of the session are posted to
EndpointFrame(prefix, id) ==
    Frame("endpoint", [id |-> id, body |-> "message?sessionId"])

HeartbeatFrame == Frame("heartbeat", [id |-> 0, body |-> "ping"])

-----------------------------------------------------------------------------
(* The session stores (session/memory.py, session/redis.py) called with the  *)
(* ids of their callers' choice                                              *)

\* Meta(id=..., created_at=datetime.now(), prefix=..., type=...)
MetaAt(id, prefix, type, created_at) ==
    [id |-> id, prefix |-> prefix, type |-> type, created_at |-> created_at]

\* what a call on a store answers: it returned, or the exception it raised
Returned == [ok |-> TRUE, error |-> ""]
Raised(error) == [ok |-> FALSE, error |-> error]

\* MemoryStore.__init__
MemoryStore == [conns |-> EmptyDict, objs |-> <<>>]

\* a dict without the key k
DictDel(d, k) == [j \in DOMAIN d \ {k} |-> d[j]]

\* a dict with d[k] = v
DictSet(d, k, v) == [j \in DOMAIN d \cup {k} |-> IF j = k THEN v ELSE d[j]]

\* MemoryStore.register: ValueError if the id exists, else a new connection
MemoryStore_register(s, meta) ==
    IF meta.id \in DOMAIN s.conns
    THEN [store |-> s, out |-> Raised("ValueError"), conn |-> 0]
    ELSE [store |-> [conns |-> DictSet(s.conns, meta.id, Len(s.objs) + 1),
                     objs |-> Append(s.objs, MemoryConnection(meta))],
          out |-> Returned, conn |-> Len(s.objs) + 1]

\* MemoryStore.get: the connection stored under the id
MemoryStore_get(s, id) ==
    IF id \in DOMAIN s.conns
    THEN [out |-> Returned, conn |-> s.conns[id]]
    ELSE [out |-> Raised("SessionNotFoundError"), conn |-> 0]

\* MemoryStore.unregister that closes the connection and keeps it in _conns
MemoryStore_unregister_keeping(s, id) ==
    IF id \notin DOMAIN s.conns
    THEN [store |-> s, out |-> Raised("SessionNotFoundError")]
    ELSE [store |-> [s EXCEPT !.objs[s.conns[id]] = close(@).c], out |-> Returned]

\* MemoryStore.unregister: closes the connection and deletes it from _conns
MemoryStore_unregister(s, id) ==
    IF id \notin DOMAIN s.conns
    THEN [store |-> s, out |-> Raised("SessionNotFoundError")]
    ELSE [store |-> [conns |-> DictDel(s.conns, id),
                     objs |-> [s.objs EXCEPT ![s.conns[id]] = close(@).c]],
          out |-> Returned]

\* MemoryStore.list: the metas of the connections of _conns
MemoryStore_list(s) == { s.objs[s.conns[id]].meta : id \in DOMAIN s.conns }

\* str(datetime), as json.dumps(..., default=str) writes created_at
str_datetime(t) == <<"datetime", t>>

\* datetime.fromisoformat that reads the time one unit late
fromisoformat_late(text) == text[2] + 1

\* datetime.fromisoformat
fromisoformat(text) == text[2]

\* json.dumps(meta.model_dump(), default=str)
dumps_meta(meta) == [meta EXCEPT !.created_at = str_datetime(@)]

\* Meta(**json.loads(data)) with created_at parsed
loads_meta(data) == [data EXCEPT !.created_at = fromisoformat(@)]

\* str(bytes), as json.dumps(..., default=str) writes Message.data: its repr
str_bytes(data) == [data EXCEPT !.body = <<"b'", @, "'">>]

\* json.dumps of an update of action "event"
dumps_event(meta, message) ==
    [action |-> "event", meta |-> dumps_meta(meta),
     message |-> [event |-> message.event, data |-> str_bytes(message.data)]]

\* the replicas of the gateway: each has its own RedisStore on one Redis
Replicas == {1, 2}

\* RedisConnection.__init__
RedisConnection(store, meta) ==
    [store |-> store, meta |-> meta, queue |-> <<>>, closed |-> FALSE]

\* the Redis server without keys, and on each replica a RedisStore after
\* __init__; initialize() subscribes the store and starts its listener
Redis(initialized) ==
    [ids |-> {}, keys |-> EmptyDict,
     connections |-> [r \in Replicas |-> EmptyDict],
     subscribed |-> [r \in Replicas |-> initialized],
     inbox |-> [r \in Replicas |-> <<>>],
     objs |-> <<>>]

\* create_store(config) with config.store = "redis": RedisStore(config.redis_config)
create_store_redis == Redis(FALSE)

\* create_redis_store(config): RedisStore(config), then initialize()
create_redis_store == Redis(TRUE)

\* client.publish(topic, payload): the payload reaches the subscribers
publish(rs, update) ==
    [rs EXCEPT !.inbox = [r \in Replicas |->
                            IF rs.subscribed[r] THEN Append(@[r], update) ELSE @[r]]]

\* RedisStore.register on replica r: set the key, add the id, store the new
\* connection under the id (the update "create" it publishes is only logged)
RedisStore_register(rs, r, meta) ==
    [store |-> [rs EXCEPT !.keys = DictSet(@, meta.id, dumps_meta(meta)),
                          !.ids = @ \cup {meta.id},
                          !.objs = Append(@, RedisConnection(r, meta)),
                          !.connections[r] = DictSet(@, meta.id, Len(rs.objs) + 1)],
     out |-> Returned, conn |-> Len(rs.objs) + 1]

\* RedisStore.get on replica r: a new RedisConnection made of the stored meta
RedisStore_get(rs, r, id) ==
    IF id \notin rs.ids \/ id \notin DOMAIN rs.keys
    THEN [store |-> rs, out |-> Raised("SessionNotFoundError"), conn |-> 0]
    ELSE [store |-> [rs EXCEPT !.objs = Append(@, RedisConnection(r, loads_meta(rs.keys[id])))],
          out |-> Returned, conn |-> Len(rs.objs) + 1]

\* RedisStore.unregister on replica r: pop the local connection, then delete
\* the key and the id (the update "delete" it publishes is only logged)
RedisStore_unregister(rs, r, id) ==
    LET popped == [rs EXCEPT !.connections[r] = DictDel(@, id)]
    IN  IF id \notin rs.ids
        THEN [store |-> popped, out |-> Raised("SessionNotFoundError")]
        ELSE [store |-> [popped EXCEPT !.keys = DictDel(@, id), !.ids = @ \ {id}],
              out |-> Returned]

\* RedisStore.list: the metas of the ids whose key holds data
RedisStore_list(rs) == { loads_meta(rs.keys[id]) : id \in rs.ids \cap DOMAIN rs.keys }

\* RedisConnection.send: RuntimeError if closed, else the event is published
RedisConnection_send(rs, k, message) ==
    IF rs.objs[k].closed THEN [store |-> rs, out |-> Raised("RuntimeError")]
    ELSE [store |-> publish(rs, dumps_event(rs.objs[k].meta, message)),
          out |-> Returned]

\* RedisConnection.close: marks the handle closed, then store.unregister(id),
\* whose SessionNotFoundError it lets through
RedisConnection_close(rs, k) ==
    IF rs.objs[k].closed THEN [store |-> rs, out |-> Returned]
    ELSE RedisStore_unregister([rs EXCEPT !.objs[k].closed = TRUE],
                               rs.objs[k].store, rs.objs[k].meta.id)

\* RedisStore._handle_updates on replica r, for one update of action "event":
\* the event is put on the queue of the replica's connection of that id; it is
\* dropped if the replica has none, or if the queue is full
handle_updates(rs, r) ==
    LET update == Head(rs.inbox[r])
        session_id == update.meta.id
        taken == [rs EXCEPT !.inbox[r] = Tail(@)]
        event_message == [event |-> update.message.event, data |-> update.message.data]
    IN  IF session_id \notin DOMAIN rs.connections[r] THEN taken
        ELSE LET k == rs.connections[r][session_id]
             IN  IF Len(rs.objs[k].queue) >= MaxQueue THEN taken
                 ELSE [taken EXCEPT !.objs[k].queue = Append(@, event_message)]

-----------------------------------------------------------------------------
(* The request handler (myunla/gateway/server.py) *)

MCP_METHOD_INITIALIZE == "initialize"
MCP_METHOD_INITIALIZED == "notifications/initialized"
MCP_METHOD_PING == "ping"
MCP_METHOD_TOOLS_LIST == "tools/list"
MCP_METHOD_TOOLS_CALL == "tools/call"

Methods ==
    { MCP_METHOD_INITIALIZE, MCP_METHOD_INITIALIZED, MCP_METHOD_PING,
      MCP_METHOD_TOOLS_LIST, MCP_METHOD_TOOLS_CALL, "resources/list" }

\* no request has been received
NoRequest ==
    [pc |-> "idle", id |-> 0, method |-> "", conn |-> 0, transport |-> 0,
     seen |-> <<>>, status |-> 0, success |-> FALSE, enqueued |-> <<>>,
     tool |-> "echo", result |-> "", contacted |-> FALSE, stopped |-> FALSE,
     follows |-> 0, repeats |-> 0]

\* what a lookup of prefix in the State st finds: the prefix's Runtime, if any
Lookup(st, prefix) ==
    [prefix |-> prefix,
     runtime |-> IF prefix \in DOMAIN st.runtime THEN Some(st.runtime[prefix]) ELSE None]

\* the request r answered with an HTTP status
Respond(r, status) == [r EXCEPT !.pc = "done", !.status = status]

\* send_success_response(conn, jsonrpc_req, result, True): the response is sent
\* to the session as an event, a failure of send is logged, and the HTTP
\* response carries the JSON-RPC response
send_success_response(r, cs) ==
    LET message == Message("jsonrpc_response", r.id, "result")
        sent == send(cs[r.conn], message)
    IN  [req |-> [r EXCEPT !.pc = "done", !.status = 200, !.success = TRUE,
                           !.enqueued = IF sent.ok THEN Append(@, message) ELSE @],
         conns |-> [cs EXCEPT ![r.conn] = sent.c],
         accepted |-> IF sent.ok THEN <<message>> ELSE <<>>]

\* send_tool_execution_error(conn, jsonrpc_req, error, True)
send_tool_execution_error(r, cs) ==
    LET message == Message("jsonrpc_error", r.id, "error")
        sent == send(cs[r.conn], message)
    IN  [req |-> [r EXCEPT !.pc = "done", !.status = 500,
                           !.enqueued = IF sent.ok THEN Append(@, message) ELSE @],
         conns |-> [cs EXCEPT ![r.conn] = sent.c],
         accepted |-> IF sent.ok THEN <<message>> ELSE <<>>]

\* a response that sends nothing to the session
send_protocol_error(r, cs, status) ==
    [req |-> Respond(r, status), conns |-> cs, accepted |-> <<>>]

\* the request waits for its backend: the transport tid, or the HTTP backend (0)
await_backend(r, cs, tid) ==
    [req |-> [r EXCEPT !.pc = "backend", !.transport = tid], conns |-> cs,
     accepted |-> <<>>]

\* handle_jsonrpc_method up to its first wait: the method table, with the
\* lookups of the session's prefix in the State st the server holds now
handle_jsonrpc_method(r0, cs, st) ==
    LET prefix == cs[r0.conn].meta.prefix
        proto_type == get_proto_type(st, prefix)
        r == IF r0.method \in {MCP_METHOD_TOOLS_LIST, MCP_METHOD_TOOLS_CALL}
             THEN [r0 EXCEPT !.seen = Append(@, Lookup(st, prefix))]
             ELSE r0
    IN  CASE r.method = MCP_METHOD_INITIALIZED -> send_protocol_error(r, cs, 202)
          [] r.method \in {MCP_METHOD_INITIALIZE, MCP_METHOD_PING} ->
                send_success_response(r, cs)
          [] r.method = MCP_METHOD_TOOLS_LIST ->
                IF proto_type = None THEN send_protocol_error(r, cs, 500)
                ELSE IF proto_type = Some("http") THEN send_success_response(r, cs)
                ELSE IF proto_type[1] \in {"stdio", "sse", "streamable"}
                THEN IF get_transport(st, prefix) = 0
                     THEN send_protocol_error(r, cs, 500)
                     ELSE await_backend(r, cs, get_transport(st, prefix))
                ELSE send_protocol_error(r, cs, 400)
          [] r.method = MCP_METHOD_TOOLS_CALL ->
                IF proto_type = None THEN send_protocol_error(r, cs, 500)
                ELSE IF proto_type = Some("http")
                THEN IF r.tool \notin DOMAIN st.runtime[prefix].tools
                     THEN send_success_response([r EXCEPT !.result = "not_found"], cs)
                     ELSE IF st.runtime[prefix].http_server = None
                     THEN send_success_response([r EXCEPT !.result = "isError"], cs)
                     ELSE await_backend(r, cs, 0)
                ELSE IF proto_type[1] \in {"stdio", "sse", "streamable"}
                THEN IF get_transport(st, prefix) = 0
                     THEN send_protocol_error(r, cs, 404)
                     ELSE await_backend(r, cs, get_transport(st, prefix))
                ELSE send_protocol_error(r, cs, 400)
          [] OTHER -> send_protocol_error(r, cs, 404)

\* the State after the lookups of handle_jsonrpc_method: for a prefix of
\* protocol http, fetch_http_tool_list and call_http_tool take the Runtime with
\* get_runtime, which adds a Runtime for a prefix that has none
runtime_lookups(r0, cs, st) ==
    LET prefix == cs[r0.conn].meta.prefix
    IN  IF /\ r0.method \in {MCP_METHOD_TOOLS_LIST, MCP_METHOD_TOOLS_CALL}
           /\ get_proto_type(st, prefix) = Some("http")
        THEN [st EXCEPT !.runtime = get_runtime(@, prefix)]
        ELSE st

-----------------------------------------------------------------------------
(* The operations *)

\* no call on the stores has been made
NoOp ==
    [n |-> 0, name |-> "", id |-> "", h |-> 0, mem |-> Returned, red |-> Returned,
     mem_list |-> {}, red_list |-> {}, remote |-> FALSE,
     reg_mem |-> {}, reg_red |-> {}, expected |-> <<>>]

\* no request has reached the streamable endpoint
NoPost ==
    [n |-> 0, path |-> <<>>, session_id |-> 0, method |-> "", prefix |-> "",
     endpoint |-> "", status |-> 0, error |-> "", session |-> 0]

\* no call of a notifier yet
NoCall ==
    [name |-> "", notifier |-> 0, updated |-> None, ok |-> TRUE, error |-> "",
     attempted |-> <<>>, config |-> <<>>, created |-> None]

\* no notifier has been constructed
NoNotifiers ==
    [objs |-> <<>>, queues |-> <<>>, handles |-> <<>>, seen |-> <<>>,
     last |-> NoCall, watches |-> 0, notifies |-> 0, creates |-> 0, closes |-> 0]

\* no reload is in progress
NoReload ==
    [pc |-> "idle", loaded |-> <<>>, failed |-> FALSE, old_state |-> EmptyState,
     old_heap |-> <<>>, new_state |-> EmptyState, reloads |-> 0]

\* the stores as the gateway creates them, before any call
InitStores ==
    /\ mem = MemoryStore
    /\ red = create_store_redis
    /\ handles = <<>>
    /\ op = NoOp
    /\ now = 0

Init ==
    /\ state = EmptyState
    /\ heap = <<>>
    /\ hung = FALSE
    /\ builds = 0
    /\ last_build = [mcps |-> <<>>, old_state |-> EmptyState, old_heap |-> <<>>,
                     returned |-> FALSE, failed |-> {}, new_heap |-> <<>>]
    /\ sessions = {}
    /\ conns = <<>>
    /\ streams = <<>>
    /\ req = NoRequest
    /\ requests = 0
    /\ log = <<>>
    /\ InitStores
    /\ post = NoPost
    /\ ntf = NoNotifiers
    /\ loader = NoReload

\* build_from_mcp(mcps, the current State), its result published as the current State
BuildFrom(mcps) ==
    /\ ~hung
    /\ builds < MaxBuilds
    /\ LET b == build_from_mcp(mcps, state, heap)
       IN  /\ heap' = b.heap
           /\ hung' = b.hung
           /\ state' = IF b.hung THEN state ELSE [mcps |-> mcps, runtime |-> b.runtime]
           /\ last_build' = [mcps |-> mcps, old_state |-> state, old_heap |-> heap,
                             returned |-> ~b.hung, failed |-> b.failed,
                             new_heap |-> b.heap]
    /\ builds' = builds + 1
    /\ UNCHANGED <<loader, session_vars, request_vars, store_vars, notifier_vars, post>>

\* tools/list of a request on prefix, served by the prefix's transport
ToolsList(prefix, backend_ok) ==
    /\ get_transport(state, prefix) # 0
    /\ LET tid == get_transport(state, prefix)
       IN  heap' = [heap EXCEPT ![tid] = fetch_tools(heap[tid], backend_ok).t]
    /\ UNCHANGED <<state, hung, builds, last_build, loader, session_vars, request_vars, store_vars, notifier_vars, post>>

\* tools/call of a request on prefix, served by the prefix's transport
ToolsCall(prefix, backend_ok) ==
    /\ get_transport(state, prefix) # 0
    /\ LET tid == get_transport(state, prefix)
       IN  heap' = [heap EXCEPT ![tid] = call_tools(heap[tid], "echo", backend_ok).t]
    /\ UNCHANGED <<state, hung, builds, last_build, loader, session_vars, request_vars, store_vars, notifier_vars, post>>

Next ==
    \/ \E mcps \in ConfigLists : BuildFrom(mcps)
    \/ \E prefix \in Prefixes, backend_ok \in BOOLEAN : ToolsList(prefix, backend_ok)
    \/ \E prefix \in Prefixes, backend_ok \in BOOLEAN : ToolsCall(prefix, backend_ok)

Spec == Init /\ [][Next]_vars

-----------------------------------------------------------------------------
(* The gateway's requests: GET <prefix>/sse, POST <prefix>/message,         *)
(* DELETE <prefix>/mcp, and the reload of the State while they run          *)

\* the config lists a reload of the gateway draws from
GatewayConfigLists ==
    { <<>>,
      <<Mcp(<<Router("/t/a", "s1")>>, <<>>, <<BaseServer("s1", ON_START)>>, <<>>)>>,
      <<Mcp(<<Router("/t/a", "s1")>>, <<HttpServer("s1", <<"echo">>)>>, <<>>,
            <<ToolEcho, ToolAdd>>)>>,
      <<Mcp(<<Router("/t/b", "s2")>>, <<>>, <<BaseServer("s2", ON_DEMAND)>>, <<>>)>> }

\* the history of a session after send() accepted the messages msgs
LogSent(lg, id, msgs) == [lg EXCEPT ![id].sent = @ \o msgs]

\* the history of a session after close() drained the messages msgs
LogDrained(lg, id, msgs) == [lg EXCEPT ![id].drained = @ \o msgs]

\* a reload: the StateLoader rebuilds the State from the current one and
\* publishes it as GatewayServer.state while requests are being handled
ReloadState(mcps) == BuildFrom(mcps)

\* GET <prefix>/sse: handle_root_request, then handle_sse registers a session
\* and its stream writes the endpoint frame
HandleSse(prefix) ==
    /\ Len(conns) < MaxSessions
    /\ get_proto_type(state, prefix) # None
    /\ LET id == Len(conns) + 1
           reg == register(sessions, conns, Meta(id, prefix, "sse"))
       IN  /\ sessions' = reg.sessions
           /\ conns' = reg.conns
           /\ streams' = Append(streams, [conn |-> id, kind |-> "sse", pc |-> "open",
                                          heartbeats |-> 0,
                                          frames |-> <<EndpointFrame(prefix, id)>>])
           /\ log' = Append(log, [sent |-> <<>>, drained |-> <<>>])
    /\ UNCHANGED <<build_vars, request_vars, store_vars, notifier_vars, post>>

\* GET <prefix>/mcp with the header Mcp-Session-Id: handle_root_request, then
\* handle_get opens another stream on the queue of the session of that id
HandleGet(prefix, id) ==
    /\ Cardinality({s \in DOMAIN streams : streams[s].kind = "mcp"}) < MaxGetStreams
    /\ get_proto_type(state, prefix) # None
    /\ id \in sessions
    /\ streams' = Append(streams, [conn |-> id, kind |-> "mcp", pc |-> "open",
                                   heartbeats |-> 0, frames |-> <<>>])
    /\ UNCHANGED <<build_vars, request_vars, sessions, conns, log, store_vars, notifier_vars, post>>

\* event_generator: an event of the queue is written as a frame
StreamEmit(s) ==
    /\ streams[s].pc = "open"
    /\ conns[streams[s].conn].queue # <<>>
    /\ LET id == streams[s].conn
           got == event_queue_get(conns[id])
       IN  /\ conns' = [conns EXCEPT ![id] = got.c]
           /\ streams' = [streams EXCEPT
                            ![s].frames = Append(@, Frame(got.event.event, got.event.data))]
    /\ UNCHANGED <<build_vars, request_vars, sessions, log, store_vars, notifier_vars, post>>

\* event_generator: the wait for an event times out and a heartbeat is written
StreamHeartbeat(s) ==
    /\ streams[s].pc = "open"
    /\ streams[s].heartbeats < MaxHeartbeats
    /\ streams' = [streams EXCEPT ![s].frames = Append(@, HeartbeatFrame),
                                  ![s].heartbeats = @ + 1]
    /\ UNCHANGED <<build_vars, request_vars, sessions, conns, log, store_vars, notifier_vars, post>>

\* event_generator: the client disconnects and the stream is cancelled; the
\* finally block of the stream of handle_sse unregisters the session (which
\* may be unregistered already), the stream of handle_get has none
StreamDisconnect(s) ==
    /\ streams[s].pc = "open"
    /\ streams' = [streams EXCEPT ![s].pc = "closed"]
    /\ IF streams[s].kind = "sse" /\ streams[s].conn \in sessions
       THEN LET u == unregister(sessions, conns, streams[s].conn)
            IN  /\ sessions' = u.sessions
                /\ conns' = u.conns
                /\ log' = LogDrained(log, streams[s].conn, u.drained)
       ELSE UNCHANGED <<sessions, conns, log>>
    /\ UNCHANGED <<build_vars, request_vars, store_vars, notifier_vars, post>>

\* DELETE <prefix>/mcp with the header Mcp-Session-Id: handle_root_request,
\* then handle_delete unregisters the session of that id
HandleDelete(prefix, id) ==
    /\ get_proto_type(state, prefix) # None
    /\ id \in sessions
    /\ LET u == unregister(sessions, conns, id)
       IN  /\ sessions' = u.sessions
           /\ conns' = u.conns
           /\ log' = LogDrained(log, id, u.drained)
    /\ UNCHANGED <<build_vars, request_vars, streams, store_vars, notifier_vars, post>>

\* POST <prefix>/message?sessionId=<id>: handle_root_request checks the prefix,
\* handle_message gets the session, and handle_post_message waits for the body
HandleRootRequestFor(prefix, id, method, name) ==
    /\ req.pc \in {"idle", "done", "blocked"}
    /\ requests < MaxRequests
    /\ requests' = requests + 1
    /\ LET r == [NoRequest EXCEPT !.id = requests + 1, !.method = method,
                                  !.seen = <<Lookup(state, prefix)>>,
                                  !.tool = name,
                                  !.follows = IF req.stopped THEN req.transport ELSE 0,
                                  !.repeats = IF /\ req.pc = "done"
                                                 /\ req.method = MCP_METHOD_TOOLS_CALL
                                                 /\ method = MCP_METHOD_TOOLS_CALL
                                                 /\ req.tool = name
                                                 /\ req.result = "ok"
                                              THEN req.transport ELSE 0]
       IN  req' = IF get_proto_type(state, prefix) = None THEN Respond(r, 404)
                  ELSE IF id \notin sessions THEN Respond(r, 404)
                  ELSE [r EXCEPT !.pc = "body", !.conn = id]
    /\ UNCHANGED <<build_vars, session_vars, store_vars, notifier_vars, post>>

\* the request whose tools/call, if it is one, names the tool "echo"
HandleRootRequest(prefix, id, method) == HandleRootRequestFor(prefix, id, method, "echo")

\* handle_post_message once the body is read: handle_jsonrpc_method answers,
\* or calls the backend
HandlePostMessage ==
    /\ req.pc = "body"
    /\ LET h == handle_jsonrpc_method(req, conns, state)
       IN  /\ req' = h.req
           /\ conns' = h.conns
           /\ log' = LogSent(log, req.conn, h.accepted)
    /\ state' = runtime_lookups(req, conns, state)
    /\ UNCHANGED <<heap, hung, builds, last_build, loader, requests, sessions, streams,
                   store_vars, notifier_vars, post>>

\* what the request r records of its backend call: the result the call
\* returned and whether a request or a session reached the backend
Called_backend(r, result, contacted) ==
    [r EXCEPT !.result = result, !.contacted = @ \/ contacted]

\* the answer of the gateway to the outcome out of the backend call of req
answer_backend(out) ==
    CASE out = "hang" ->
            [req |-> [req EXCEPT !.pc = "blocked"], conns |-> conns, accepted |-> <<>>]
      [] out = "raise" ->
            IF req.method = MCP_METHOD_TOOLS_LIST
            THEN send_protocol_error(req, conns, 500)
            ELSE send_tool_execution_error(req, conns)
      [] OTHER -> send_success_response(req, conns)

\* the backend call of tools/list or tools/call returns, raises or never returns
BackendReturns(backend_ok) ==
    /\ req.pc = "backend"
    /\ LET tid == req.transport
           called == IF tid = 0
                     THEN [out |-> IF backend_ok THEN "ok" ELSE "isError"]
                     ELSE IF req.method = MCP_METHOD_TOOLS_LIST
                     THEN fetch_tools(heap[tid], backend_ok)
                     ELSE call_tools(heap[tid], req.tool, backend_ok)
           contacted == IF tid = 0 THEN req.method = MCP_METHOD_TOOLS_CALL
                        ELSE IF req.method = MCP_METHOD_TOOLS_LIST
                        THEN fetch_tools_opens_session(heap[tid])
                        ELSE call_tools_opens_session(heap[tid], req.tool)
           h == answer_backend(called.out)
       IN  /\ heap' = IF tid = 0 THEN heap ELSE [heap EXCEPT ![tid] = called.t]
           /\ req' = Called_backend(h.req, called.out, contacted)
           /\ conns' = h.conns
           /\ log' = LogSent(log, req.conn, h.accepted)
    /\ UNCHANGED <<state, hung, builds, last_build, loader, requests, sessions, streams, store_vars, notifier_vars, post>>

SessionIds == 1..MaxSessions

\* the dispatcher: requests on sessions while the State is reloaded
NextDispatch ==
    \/ \E mcps \in GatewayConfigLists : ReloadState(mcps)
    \/ \E prefix \in Prefixes : HandleSse(prefix)
    \/ \E prefix \in Prefixes, id \in SessionIds : HandleDelete(prefix, id)
    \/ \E prefix \in Prefixes, id \in SessionIds, method \in Methods :
            HandleRootRequest(prefix, id, method)
    \/ HandlePostMessage
    \/ \E backend_ok \in BOOLEAN : BackendReturns(backend_ok)

SpecDispatch == Init /\ [][NextDispatch]_vars

\* the config list the gateway of the streams is constructed with: an HTTP
\* server routed at one prefix
StreamConfigs ==
    <<Mcp(<<Router("/t/a", "s1")>>, <<HttpServer("s1", <<"echo">>)>>, <<>>,
          <<ToolEcho, ToolAdd>>)>>

\* the methods of the requests that feed the streams
StreamMethods == { MCP_METHOD_PING }

\* a gateway that has loaded its configs: it serves the State built from them
InitStream ==
    /\ LET b == build_from_mcp(StreamConfigs, EmptyState, <<>>)
       IN  /\ state = [mcps |-> StreamConfigs, runtime |-> b.runtime]
           /\ heap = b.heap
           /\ hung = FALSE
           /\ builds = 1
           /\ last_build = [mcps |-> StreamConfigs, old_state |-> EmptyState,
                            old_heap |-> <<>>, returned |-> TRUE, failed |-> b.failed,
                            new_heap |-> b.heap]
    /\ sessions = {}
    /\ conns = <<>>
    /\ streams = <<>>
    /\ req = NoRequest
    /\ requests = 0
    /\ log = <<>>
    /\ InitStores
    /\ post = NoPost
    /\ ntf = NoNotifiers
    /\ loader = NoReload

\* the SSE streams: the producers of a session's events and its consumers
NextStream ==
    \/ \E prefix \in Prefixes : HandleSse(prefix)
    \/ \E prefix \in Prefixes, id \in SessionIds : HandleGet(prefix, id)
    \/ \E s \in DOMAIN streams : StreamEmit(s)
    \/ \E s \in DOMAIN streams : StreamHeartbeat(s)
    \/ \E s \in DOMAIN streams : StreamDisconnect(s)
    \/ \E prefix \in Prefixes, id \in SessionIds : HandleDelete(prefix, id)
    \/ \E prefix \in Prefixes, id \in SessionIds, method \in StreamMethods :
            HandleRootRequest(prefix, id, method)
    \/ HandlePostMessage

SpecStream == InitStream /\ [][NextStream]_vars

-----------------------------------------------------------------------------
(* The two session stores, called in step with the same arguments; the      *)
(* RedisStore of replica 1 is the one called in step with the MemoryStore,  *)
(* replica 2 is another gateway on the same Redis                           *)

\* the ids the callers of the stores choose
StoreIds == {"a", "b"}

\* the message of the n-th call
StoreMessage(n) == Message("jsonrpc_response", n, "result")

\* the history after the call name(id, h) that answered m on the MemoryStore
\* and r on the RedisStore
Called(name, id, h, m, r) ==
    [op EXCEPT !.n = @ + 1, !.name = name, !.id = id, !.h = h, !.mem = m, !.red = r,
               !.mem_list = {}, !.red_list = {}]

\* the history of the events that are to arrive: one more on the queue of the
\* connection that replica 1 holds for the session of the handle k
Expect(expected, rs, k, message) ==
    LET id == rs.objs[k].meta.id
    IN  IF id \in DOMAIN rs.connections[1]
        THEN [expected EXCEPT ![rs.connections[1][id]] = Append(@, message)]
        ELSE expected

\* the stores of a gateway: created by create_store, or by create_redis_store
InitStore ==
    /\ state = EmptyState
    /\ heap = <<>>
    /\ hung = FALSE
    /\ builds = 0
    /\ last_build = [mcps |-> <<>>, old_state |-> EmptyState, old_heap |-> <<>>,
                     returned |-> FALSE, failed |-> {}, new_heap |-> <<>>]
    /\ sessions = {}
    /\ conns = <<>>
    /\ streams = <<>>
    /\ req = NoRequest
    /\ requests = 0
    /\ log = <<>>
    /\ mem = MemoryStore
    /\ red \in {create_store_redis, create_redis_store}
    /\ handles = <<>>
    /\ op = NoOp
    /\ now = 0
    /\ post = NoPost
    /\ ntf = NoNotifiers
    /\ loader = NoReload

\* store.register(Meta(id=id, created_at=datetime.now(), ...))
StoreRegister(id) ==
    /\ op.n < MaxOps
    /\ LET meta == MetaAt(id, "/t/a", "sse", now)
           m == MemoryStore_register(mem, meta)
           r == RedisStore_register(red, 1, meta)
           c == Called("register", id, 0, m.out, r.out)
       IN  /\ mem' = m.store
           /\ red' = r.store
           /\ handles' = IF m.out.ok /\ r.out.ok
                         THEN Append(handles, [id |-> id, mem |-> m.conn, red |-> r.conn])
                         ELSE handles
           /\ op' = [c EXCEPT !.reg_mem = IF m.out.ok THEN @ \cup {id} ELSE @,
                              !.reg_red = IF r.out.ok THEN @ \cup {id} ELSE @,
                              !.expected = IF r.out.ok THEN Append(@, <<>>) ELSE @]
    /\ UNCHANGED <<gateway_vars, notifier_vars, now, post>>

\* store.get(id)
StoreGet(id) ==
    /\ op.n < MaxOps
    /\ LET m == MemoryStore_get(mem, id)
           r == RedisStore_get(red, 1, id)
           c == Called("get", id, 0, m.out, r.out)
       IN  /\ red' = r.store
           /\ handles' = IF m.out.ok /\ r.out.ok
                         THEN Append(handles, [id |-> id, mem |-> m.conn, red |-> r.conn])
                         ELSE handles
           /\ op' = [c EXCEPT !.expected = IF r.out.ok THEN Append(@, <<>>) ELSE @]
    /\ UNCHANGED <<gateway_vars, notifier_vars, mem, now, post>>

\* store.unregister(id)
StoreUnregister(id) ==
    /\ op.n < MaxOps
    /\ LET m == MemoryStore_unregister(mem, id)
           r == RedisStore_unregister(red, 1, id)
           c == Called("unregister", id, 0, m.out, r.out)
       IN  /\ mem' = m.store
           /\ red' = r.store
           /\ op' = [c EXCEPT !.reg_mem = IF m.out.ok THEN @ \ {id} ELSE @,
                              !.reg_red = IF r.out.ok THEN @ \ {id} ELSE @]
    /\ UNCHANGED <<gateway_vars, notifier_vars, handles, now, post>>

\* store.list()
StoreList ==
    /\ op.n < MaxOps
    /\ op' = [Called("list", "", 0, Returned, Returned) EXCEPT
                !.mem_list = MemoryStore_list(mem), !.red_list = RedisStore_list(red)]
    /\ UNCHANGED <<gateway_vars, notifier_vars, mem, red, handles, now, post>>

\* conn.send(message) on the h-th pair of connections the stores returned
StoreSend(h) ==
    /\ op.n < MaxOps
    /\ handles[h].mem # 0
    /\ LET message == StoreMessage(op.n + 1)
           sent == send(mem.objs[handles[h].mem], message)
           r == RedisConnection_send(red, handles[h].red, message)
           c == Called("send", handles[h].id, h,
                       IF sent.ok THEN Returned ELSE Raised("RuntimeError"), r.out)
       IN  /\ mem' = [mem EXCEPT !.objs[handles[h].mem] = sent.c]
           /\ red' = r.store
           /\ op' = [c EXCEPT !.expected = IF r.out.ok
                                           THEN Expect(@, red, handles[h].red, message)
                                           ELSE @]
    /\ UNCHANGED <<gateway_vars, notifier_vars, handles, now, post>>

\* conn.close() on the h-th pair of connections the stores returned
StoreClose(h) ==
    /\ op.n < MaxOps
    /\ handles[h].mem # 0
    /\ LET closed == close(mem.objs[handles[h].mem])
           r == RedisConnection_close(red, handles[h].red)
           unregistered == ~red.objs[handles[h].red].closed /\ r.out.ok
           c == Called("close", handles[h].id, h, Returned, r.out)
       IN  /\ mem' = [mem EXCEPT !.objs[handles[h].mem] = closed.c]
           /\ red' = r.store
           /\ op' = [c EXCEPT !.reg_red = IF unregistered THEN @ \ {handles[h].id}
                                          ELSE @]
    /\ UNCHANGED <<gateway_vars, notifier_vars, handles, now, post>>

\* store.get(id) on replica 2
RemoteGet(id) ==
    /\ op.n < MaxOps
    /\ LET r == RedisStore_get(red, 2, id)
           c == Called("remote get", id, 0, Returned, r.out)
       IN  /\ red' = r.store
           /\ handles' = IF r.out.ok
                         THEN Append(handles, [id |-> id, mem |-> 0, red |-> r.conn])
                         ELSE handles
           /\ op' = [c EXCEPT !.remote = TRUE,
                              !.expected = IF r.out.ok THEN Append(@, <<>>) ELSE @]
    /\ UNCHANGED <<gateway_vars, notifier_vars, mem, now, post>>

\* conn.send(message) on a connection that get returned on replica 2
RemoteSend(h) ==
    /\ op.n < MaxOps
    /\ handles[h].mem = 0
    /\ LET message == StoreMessage(op.n + 1)
           r == RedisConnection_send(red, handles[h].red, message)
           c == Called("remote send", handles[h].id, h, Returned, r.out)
       IN  /\ red' = r.store
           /\ op' = [c EXCEPT !.remote = TRUE,
                              !.expected = IF r.out.ok
                                           THEN Expect(@, red, handles[h].red, message)
                                           ELSE @]
    /\ UNCHANGED <<gateway_vars, notifier_vars, mem, handles, now, post>>

\* the listener of replica r takes an update from the channel
HandleUpdates(r) ==
    /\ red.inbox[r] # <<>>
    /\ red' = handle_updates(red, r)
    /\ UNCHANGED <<gateway_vars, notifier_vars, mem, handles, op, now, post>>

\* time passes
Tick ==
    /\ now < MaxTime
    /\ now' = now + 1
    /\ UNCHANGED <<gateway_vars, notifier_vars, mem, red, handles, op, post>>

NextStore ==
    \/ \E id \in StoreIds : StoreRegister(id)
    \/ \E id \in StoreIds : StoreGet(id)
    \/ \E id \in StoreIds : StoreUnregister(id)
    \/ StoreList
    \/ \E h \in DOMAIN handles : StoreSend(h)
    \/ \E h \in DOMAIN handles : StoreClose(h)
    \/ \E id \in StoreIds : RemoteGet(id)
    \/ \E h \in DOMAIN handles : RemoteSend(h)
    \/ \E r \in Replicas : HandleUpdates(r)
    \/ Tick

SpecStore == InitStore /\ [][NextStore]_vars

-----------------------------------------------------------------------------
(* The streamable endpoint: POST <prefix>/mcp. A path is the sequence of its *)
(* characters, so that strip, split and rstrip do what str's methods do     *)

\* the strings the paths of the model are made of, and their characters
PathStrings == {"", "/", "/t", "/t/a", "/t/p", "/x/y", "mcp", "x"}

Chars(string) ==
    CASE string = "" -> <<>>
      [] string = "/" -> <<"/">>
      [] string = "/t" -> <<"/", "t">>
      [] string = "/t/a" -> <<"/", "t", "/", "a">>
      [] string = "/t/p" -> <<"/", "t", "/", "p">>
      [] string = "/x/y" -> <<"/", "x", "/", "y">>
      [] string = "mcp" -> <<"m", "c", "p">>
      [] string = "x" -> <<"x">>

\* the string of a sequence of characters ("?": a string the model has no name for)
Str(chars) ==
    IF \E string \in PathStrings : Chars(string) = chars
    THEN CHOOSE string \in PathStrings : Chars(string) = chars
    ELSE "?"

RECURSIVE lstrip(_, _)
\* str.lstrip(chars): drops the leading characters that are in the set chars
lstrip(text, chars) ==
    IF text # <<>> /\ Head(text) \in chars THEN lstrip(Tail(text), chars) ELSE text

RECURSIVE rstrip(_, _)
\* str.rstrip(chars): drops the trailing characters that are in the set chars
rstrip(text, chars) ==
    IF text # <<>> /\ text[Len(text)] \in chars
    THEN rstrip(SubSeq(text, 1, Len(text) - 1), chars)
    ELSE text

\* str.strip(chars)
strip(text, chars) == rstrip(lstrip(text, chars), chars)

RECURSIVE split_from(_, _, _, _)
split_from(text, sep, i, part) ==
    IF i > Len(text) THEN <<part>>
    ELSE IF text[i] = sep THEN <<part>> \o split_from(text, sep, i + 1, <<>>)
    ELSE split_from(text, sep, i + 1, Append(part, text[i]))

\* str.split(sep)
split(text, sep) == split_from(text, sep, 1, <<>>)

RECURSIVE join(_, _)
\* sep.join(parts)
join(parts, sep) ==
    IF parts = <<>> THEN <<>>
    ELSE IF Len(parts) = 1 THEN parts[1]
    ELSE parts[1] \o <<sep>> \o join(Tail(parts), sep)

\* [p for p in full_path.strip("/").split("/") if p]
path_parts(full_path) ==
    SelectSeq(split(strip(full_path, {"/"}), "/"), LAMBDA part : part # <<>>)

\* handle_root_request that takes a path of one segment for a path
handle_root_request_one_segment(full_path, st) ==
    LET parts == path_parts(full_path)
    IN  IF Len(parts) < 1
        THEN [status |-> 400, error |-> "Invalid path", prefix |-> "", endpoint |-> ""]
        ELSE LET endpoint == Str(parts[Len(parts)])
                 prefix == Str(<<"/">> \o join(SubSeq(parts, 1, Len(parts) - 1), "/"))
             IN  IF get_proto_type(st, prefix) = None
                 THEN [status |-> 404, error |-> "Invalid prefix", prefix |-> prefix,
                       endpoint |-> endpoint]
                 ELSE [status |-> 0, error |-> "", prefix |-> prefix,
                       endpoint |-> endpoint]

\* handle_root_request up to route_endpoint: 400 for a path of less than two
\* segments, 404 for a prefix without Runtime, else the prefix and the endpoint
handle_root_request(full_path, st) ==
    LET parts == path_parts(full_path)
    IN  IF Len(parts) < 2
        THEN [status |-> 400, error |-> "Invalid path", prefix |-> "", endpoint |-> ""]
        ELSE LET endpoint == Str(parts[Len(parts)])
                 prefix == Str(<<"/">> \o join(SubSeq(parts, 1, Len(parts) - 1), "/"))
             IN  IF get_proto_type(st, prefix) = None
                 THEN [status |-> 404, error |-> "Invalid prefix", prefix |-> prefix,
                       endpoint |-> endpoint]
                 ELSE [status |-> 0, error |-> "", prefix |-> prefix,
                       endpoint |-> endpoint]

\* the prefix handle_post gives the session of an initialize request:
\* str(request.url.path).rstrip("/mcp"), or "/" if nothing is left
session_prefix(path) ==
    LET prefix == rstrip(path, {"/", "m", "c", "p"})
    IN  IF prefix = <<>> THEN "/" ELSE Str(prefix)

\* what handle_post answers: a status, an error message, the header
\* Mcp-Session-Id of the response (0: none), and the store after it
Answer(status, error, session, ids, cs) ==
    [status |-> status, error |-> error, session |-> session,
     sessions |-> ids, conns |-> cs]

\* handle_post that registers a session for every initialize request
handle_post_registering(ids, cs, path, session_id, method) ==
    IF method = MCP_METHOD_INITIALIZE
    THEN LET id == Len(cs) + 1
             reg == register(ids, cs, Meta(id, session_prefix(path), "streamable"))
         IN  Answer(200, "", id, reg.sessions, reg.conns)
    ELSE IF session_id \notin ids THEN Answer(404, "Session not found", 0, ids, cs)
    ELSE IF method = MCP_METHOD_INITIALIZED THEN Answer(202, "", 0, ids, cs)
    ELSE Answer(404, "Method not found", 0, ids, cs)

\* handle_post of a JSON-RPC request with acceptable headers, and the
\* handle_mcp_request it ends with; session_id is the header Mcp-Session-Id
\* (0: the request has none)
handle_post(ids, cs, path, session_id, method) ==
    IF method = MCP_METHOD_INITIALIZE
    THEN IF session_id # 0
         THEN IF session_id \in ids
              THEN Answer(400, "Invalid Request: Server already initialized", 0, ids, cs)
              ELSE Answer(500, "Failed to get connection", 0, ids, cs)
         ELSE LET id == Len(cs) + 1
                  reg == register(ids, cs, Meta(id, session_prefix(path), "streamable"))
              IN  Answer(200, "", id, reg.sessions, reg.conns)
    ELSE IF session_id \notin ids THEN Answer(404, "Session not found", 0, ids, cs)
    ELSE IF method = MCP_METHOD_INITIALIZED THEN Answer(202, "", 0, ids, cs)
    ELSE Answer(404, "Method not found", 0, ids, cs)

\* the paths of the requests: <prefix>/mcp for two routed prefixes, with a
\* trailing slash, of one segment, of none, of a prefix no router has, and
\* with an endpoint the gateway does not have
McpPaths ==
    { Chars("/t/a") \o <<"/">> \o Chars("mcp"),
      Chars("/t/p") \o <<"/">> \o Chars("mcp"),
      Chars("/t/a") \o <<"/">> \o Chars("mcp") \o <<"/">>,
      <<"/">> \o Chars("mcp"),
      <<"/">>,
      Chars("/x/y") \o <<"/">> \o Chars("mcp"),
      Chars("/t/a") \o <<"/">> \o Chars("x") }

\* the methods of the requests on the streamable endpoint
McpMethods == { MCP_METHOD_INITIALIZE, MCP_METHOD_INITIALIZED, MCP_METHOD_PING }

\* the config list of the gateway of the streamable endpoint: an HTTP server
\* routed at two prefixes
McpEndpointConfigs ==
    <<Mcp(<<Router("/t/a", "s1"), Router("/t/p", "s1")>>,
          <<HttpServer("s1", <<"echo">>)>>, <<>>, <<ToolEcho, ToolAdd>>)>>

\* a gateway that has loaded its configs: it serves the State built from them
InitMcp ==
    /\ LET b == build_from_mcp(McpEndpointConfigs, EmptyState, <<>>)
       IN  /\ state = [mcps |-> McpEndpointConfigs, runtime |-> b.runtime]
           /\ heap = b.heap
           /\ hung = FALSE
           /\ builds = 1
           /\ last_build = [mcps |-> McpEndpointConfigs, old_state |-> EmptyState,
                            old_heap |-> <<>>, returned |-> TRUE, failed |-> b.failed,
                            new_heap |-> b.heap]
    /\ sessions = {}
    /\ conns = <<>>
    /\ streams = <<>>
    /\ req = NoRequest
    /\ requests = 0
    /\ log = <<>>
    /\ InitStores
    /\ post = NoPost
    /\ ntf = NoNotifiers
    /\ loader = NoReload

\* POST of a JSON-RPC request at path: handle_root_request, route_endpoint,
\* handle_mcp and handle_post
HandlePost(path, session_id, method) ==
    /\ post.n < MaxPosts
    /\ Len(handle_post(sessions, conns, path, session_id, method).conns) <= MaxSessions
    /\ LET root == handle_root_request(path, state)
           routed == [n |-> post.n + 1, path |-> path, session_id |-> session_id,
                      method |-> method, prefix |-> root.prefix,
                      endpoint |-> root.endpoint, status |-> root.status,
                      error |-> root.error, session |-> 0]
       IN  IF root.status # 0
           THEN /\ post' = routed
                /\ UNCHANGED <<sessions, conns, log>>
           ELSE IF root.endpoint # "mcp"
           THEN /\ post' = [routed EXCEPT !.status = 404, !.error = "Invalid endpoint"]
                /\ UNCHANGED <<sessions, conns, log>>
           ELSE LET a == handle_post(sessions, conns, path, session_id, method)
                IN  /\ post' = [routed EXCEPT !.status = a.status, !.error = a.error,
                                              !.session = a.session]
                    /\ sessions' = a.sessions
                    /\ conns' = a.conns
                    /\ log' = IF Len(a.conns) > Len(conns)
                              THEN Append(log, [sent |-> <<>>, drained |-> <<>>])
                              ELSE log
    /\ UNCHANGED <<build_vars, request_vars, streams, store_vars, notifier_vars>>

\* the streamable endpoint, beside the sessions of GET <prefix>/sse
NextMcp ==
    \/ \E path \in McpPaths, session_id \in {0} \cup SessionIds, method \in McpMethods :
            HandlePost(path, session_id, method)
    \/ \E prefix \in DOMAIN state.runtime : HandleSse(prefix)
    \/ \E prefix \in DOMAIN state.runtime, id \in SessionIds : HandleDelete(prefix, id)

SpecMcp == InitMcp /\ [][NextMcp]_vars

-----------------------------------------------------------------------------
(* The life of a session: registered by GET <prefix>/sse or by an initialize *)
(* request on <prefix>/mcp, served by streams, ended by a disconnect or by   *)
(* DELETE <prefix>/mcp                                                       *)

\* the path of the initialize requests
LifecyclePaths == { Chars("/t/a") \o <<"/">> \o Chars("mcp") }

NextLifecycle ==
    \/ \E path \in LifecyclePaths, session_id \in {0} \cup SessionIds :
            HandlePost(path, session_id, MCP_METHOD_INITIALIZE)
    \/ \E prefix \in DOMAIN state.runtime : HandleSse(prefix)
    \/ \E prefix \in DOMAIN state.runtime, id \in SessionIds : HandleGet(prefix, id)
    \/ \E s \in DOMAIN streams : StreamHeartbeat(s)
    \/ \E s \in DOMAIN streams : StreamDisconnect(s)
    \/ \E prefix \in DOMAIN state.runtime, id \in SessionIds : HandleDelete(prefix, id)

SpecLifecycle == InitMcp /\ [][NextLifecycle]_vars

-----------------------------------------------------------------------------
(* tools/list and tools/call on the transports, and stop() while a call runs *)

\* the config lists a gateway of the tool calls is constructed with: one server
\* routed at /t/a, started on demand
ToolConfigLists ==
    { <<Mcp(<<Router("/t/a", "s1")>>, <<>>,
            <<McpServer("s1", sh.type, sh.command, sh.url, <<>>, ON_DEMAND, FALSE)>>,
            <<>>)>> :
        sh \in { [type |-> "stdio", command |-> "foo --bar", url |-> ""],
                 [type |-> "stdio", command |-> "", url |-> ""],
                 [type |-> "sse", command |-> "", url |-> "http://up"],
                 [type |-> "streamable", command |-> "", url |-> "http://up"] } }
    \cup { StreamConfigs }

\* the names of the tools the requests call: one the backends have, one they lack
ToolNames == {"echo", "nope"}

\* a gateway that has loaded one of the config lists, with one session open
InitTools ==
    /\ \E mcps \in ToolConfigLists :
          LET b == build_from_mcp(mcps, EmptyState, <<>>)
          IN  /\ state = [mcps |-> mcps, runtime |-> b.runtime]
              /\ heap = b.heap
              /\ hung = FALSE
              /\ builds = 1
              /\ last_build = [mcps |-> mcps, old_state |-> EmptyState,
                               old_heap |-> <<>>, returned |-> TRUE,
                               failed |-> b.failed, new_heap |-> b.heap]
    /\ sessions = {}
    /\ conns = <<>>
    /\ streams = <<>>
    /\ req = NoRequest
    /\ requests = 0
    /\ log = <<>>
    /\ InitStores
    /\ post = NoPost
    /\ ntf = NoNotifiers
    /\ loader = NoReload

\* call_tools() of the request starts: it answers at once, or enters the
\* session and waits for the backend
CallToolsEnters ==
    /\ req.pc = "backend"
    /\ req.method = MCP_METHOD_TOOLS_CALL
    /\ req.transport # 0
    /\ LET tid == req.transport
           entered == call_tools_enter(heap[tid], req.tool)
           contacted == call_tools_opens_session(heap[tid], req.tool)
           h == answer_backend(entered.out)
       IN  /\ heap' = [heap EXCEPT ![tid] = entered.t]
           /\ IF entered.out = "session"
              THEN /\ req' = Called_backend([req EXCEPT !.pc = "session"], "", contacted)
                   /\ UNCHANGED <<conns, log>>
              ELSE /\ req' = Called_backend(h.req, entered.out, contacted)
                   /\ conns' = h.conns
                   /\ log' = LogSent(log, req.conn, h.accepted)
    /\ UNCHANGED <<state, hung, builds, last_build, loader, requests, sessions, streams, store_vars, notifier_vars, post>>

\* the backend answers the call_tools() that waits in its session, or the
\* session raises
CallToolsLeaves(backend_ok) ==
    /\ req.pc = "session"
    /\ LET tid == req.transport
           left == call_tools_leave(heap[tid], backend_ok)
           h == answer_backend(left.out)
       IN  /\ heap' = [heap EXCEPT ![tid] = left.t]
           /\ req' = Called_backend(h.req, left.out, TRUE)
           /\ conns' = h.conns
           /\ log' = LogSent(log, req.conn, h.accepted)
    /\ UNCHANGED <<state, hung, builds, last_build, loader, requests, sessions, streams, store_vars, notifier_vars, post>>

\* stop() of the transport tid, by another task of the gateway
StopTransport(tid) ==
    /\ heap[tid].is_running \/ heap[tid].conn
    /\ heap' = [heap EXCEPT ![tid] = transport_stop(heap[tid]).t]
    /\ req' = IF req.pc = "session" /\ req.transport = tid
              THEN [req EXCEPT !.stopped = TRUE]
              ELSE req
    /\ UNCHANGED <<state, hung, builds, last_build, loader, requests, session_vars, store_vars, notifier_vars, post>>

NextTools ==
    \/ \E prefix \in DOMAIN state.runtime : HandleSse(prefix)
    \/ \E prefix \in DOMAIN state.runtime, id \in SessionIds, name \in ToolNames,
            method \in {MCP_METHOD_TOOLS_LIST, MCP_METHOD_TOOLS_CALL} :
            HandleRootRequestFor(prefix, id, method, name)
    \/ HandlePostMessage
    \/ \E backend_ok \in BOOLEAN : BackendReturns(backend_ok)
    \/ CallToolsEnters
    \/ \E backend_ok \in BOOLEAN : CallToolsLeaves(backend_ok)
    \/ \E tid \in DOMAIN heap : StopTransport(tid)

SpecTools == InitTools /\ [][NextTools]_vars

-----------------------------------------------------------------------------
(* The reload of the State (myunla/gateway/state_loader.py) while requests  *)
(* are handled                                                              *)

\* the config lists the admin store holds at a reload
ReloadConfigLists ==
    { <<>>,
      <<Mcp(<<Router("/t/a", "s1")>>, <<>>, <<BaseServer("s1", ON_START)>>, <<>>)>>,
      <<Mcp(<<Router("/t/b", "s2")>>, <<>>, <<BaseServer("s2", ON_DEMAND)>>, <<>>)>>,
      <<Mcp(<<Router("/t/a", "s1"), Router("/t/b", "s2")>>, <<>>,
            <<BaseServer("s1", ON_START), BaseServer("s2", ON_DEMAND)>>, <<>>)>>,
      StreamConfigs }

\* what async_db_ops.list_configs answers: the configs, or an exception
LoadResults ==
    { [ok |-> TRUE, configs |-> mcps] : mcps \in ReloadConfigLists }
        \cup { [ok |-> FALSE, configs |-> <<>>] }

\* GatewayStateLoader.load_mcp_configs_from_db: an exception is logged and the
\* empty list is returned
load_mcp_configs_from_db(loaded) == IF loaded.ok THEN loaded.configs ELSE <<>>

\* GatewayStateLoader.initialize_gateway_state(old_state): without configs an
\* empty State is returned, else the State build_from_mcp builds
initialize_gateway_state(loaded, old_state, h) ==
    LET mcp_configs == load_mcp_configs_from_db(loaded)
    IN  IF mcp_configs = <<>>
        THEN [state |-> EmptyState, heap |-> h, hung |-> FALSE]
        ELSE LET b == build_from_mcp(mcp_configs, old_state, h)
             IN  [state |-> [mcps |-> mcp_configs, runtime |-> b.runtime],
                  heap |-> b.heap, hung |-> b.hung]

\* GatewayStateLoader.reload_gateway_state(current_state)
reload_gateway_state(loaded, current_state, h) ==
    initialize_gateway_state(loaded, current_state, h)

\* initialize_state calls the loader with the State the server holds; the
\* loader returns the new State, or its build blocks
ReloadGatewayState(loaded) ==
    /\ loader.pc = "idle"
    /\ ~hung
    /\ loader.reloads < MaxReloads
    /\ LET got == reload_gateway_state(loaded, state, heap)
       IN  /\ heap' = got.heap
           /\ hung' = got.hung
           /\ loader' = [pc |-> IF got.hung THEN "blocked" ELSE "returned",
                         loaded |-> loaded.configs, failed |-> ~loaded.ok,
                         old_state |-> state, old_heap |-> heap,
                         new_state |-> got.state, reloads |-> loader.reloads + 1]
    /\ UNCHANGED <<state, builds, last_build, session_vars, request_vars, store_vars,
                   notifier_vars, post>>

\* initialize_state publishes the State the loader returned: self.state = new_state
PublishState ==
    /\ loader.pc = "returned"
    /\ state' = loader.new_state
    /\ loader' = [loader EXCEPT !.pc = "idle"]
    /\ UNCHANGED <<heap, hung, builds, last_build, session_vars, request_vars, store_vars,
                   notifier_vars, post>>

NextReload ==
    \/ \E loaded \in LoadResults : ReloadGatewayState(loaded)
    \/ PublishState
    \/ \E prefix \in Prefixes : HandleSse(prefix)
    \/ \E prefix \in Prefixes, id \in SessionIds,
            method \in {MCP_METHOD_TOOLS_LIST, MCP_METHOD_TOOLS_CALL} :
            HandleRootRequest(prefix, id, method)
    \/ HandlePostMessage
    \/ \E backend_ok \in BOOLEAN : BackendReturns(backend_ok)

SpecReload == Init /\ [][NextReload]_vars

-----------------------------------------------------------------------------
(* The notifiers (myunla/gateway/notifier) *)

\* NotifierRole
SENDER == "sender"
RECEIVER == "receiver"
BOTH == "both"

Roles == {SENDER, RECEIVER, BOTH}

\* NotifierType
REDIS == "redis"
API == "api"
SIGNAL == "signal"
COMPOSITE == "composite"

\* a notifier after __init__: its role, the queue of a Redis notifier (0: none),
\* its watcher queues, whether it is started, how many listeners it has started
\* (subscriptions, servers, signal handlers), whether its channel reaches it,
\* the messages of the channel it has not handled yet, as history the values
\* its listener made of the messages it handled, and, for a composite, its
\* children and its reader tasks
Notifier(type, role, children) ==
    [type |-> type, role |-> role, queue |-> 0, watchers |-> <<>>, running |-> FALSE,
     listening |-> FALSE, subscriptions |-> 0, inbox |-> <<>>, heard |-> <<>>,
     children |-> children, tasks |-> <<>>, closed |-> FALSE]

\* can_receive()
can_receive(objs, i) ==
    IF objs[i].type = COMPOSITE
    THEN \E j \in DOMAIN objs[i].children :
            objs[objs[i].children[j]].role \in {RECEIVER, BOTH}
    ELSE objs[i].role \in {RECEIVER, BOTH}

\* can_send()
can_send(objs, i) ==
    IF objs[i].type = COMPOSITE
    THEN \E j \in DOMAIN objs[i].children :
            objs[objs[i].children[j]].role \in {SENDER, BOTH}
    ELSE objs[i].role \in {SENDER, BOTH}

\* asyncio.Queue(maxsize): maxsize 0 is a queue without a bound
Queue(maxsize) == [items |-> <<>>, maxsize |-> maxsize]

\* queue.put_nowait(item): a full queue raises QueueFull
put_nowait(q, item) ==
    IF q.maxsize > 0 /\ Len(q.items) >= q.maxsize
    THEN [q |-> q, ok |-> FALSE]
    ELSE [q |-> [q EXCEPT !.items = Append(@, item)], ok |-> TRUE]

\* for queue in self.watchers.copy(): queue.put_nowait(config), a full queue skipped
RECURSIVE notify_watchers_from(_, _, _, _)
notify_watchers_from(queues, ids, item, j) ==
    IF j > Len(ids) THEN queues
    ELSE LET put == put_nowait(queues[ids[j]], item)
         IN  notify_watchers_from([queues EXCEPT ![ids[j]] = put.q], ids, item, j + 1)

\* _notify_watchers(config)
notify_watchers(queues, ids, item) == notify_watchers_from(queues, ids, item, 1)

\* Mcp.model_dump_json: the JSON document of a config
model_dump_json(config) == [config EXCEPT !.created_at = str_datetime(@)]

\* Mcp(**json.loads(payload)): the config of a JSON document
Mcp_loads(document) == [document EXCEPT !.created_at = fromisoformat(@)]

\* a message of a channel: the payload (<<>>: none) and, as history, the
\* argument of the notify_update that sent it
ChannelMessage(payload, updated) == [payload |-> payload, origin |-> updated]

\* the payload notify_update sends for updated: none for the reload signal
payload_always_empty(updated) == <<>>

payload_of(updated) ==
    IF updated = None THEN <<>> ELSE <<model_dump_json(updated[1])>>

\* the message reaches every notifier of the type that listens to the channel
broadcast(objs, type, message) ==
    [j \in DOMAIN objs |->
        IF objs[j].type = type /\ objs[j].listening
        THEN [objs[j] EXCEPT !.inbox = Append(@, message)]
        ELSE objs[j]]

NotifierRaised(w) == [w |-> w, ok |-> FALSE, error |-> "NotifierError", queue |-> 0]

\* a watch() that returned the queue
Watching(objs, queues, qid) ==
    [w |-> [objs |-> objs, queues |-> queues], ok |-> TRUE, error |-> "", queue |-> qid]

\* RedisNotifier.watch: one queue per notifier; dead is whether Redis cannot
\* be reached
RedisNotifier_watch(w, i, dead) ==
    LET o == w.objs[i]
        qid == IF o.queue = 0 THEN Len(w.queues) + 1 ELSE o.queue
        queues == IF o.queue = 0 THEN Append(w.queues, Queue(0)) ELSE w.queues
        queued == [o EXCEPT !.queue = qid]
    IN  IF ~can_receive(w.objs, i) THEN NotifierRaised(w)
        ELSE IF o.running THEN Watching([w.objs EXCEPT ![i] = queued], queues, qid)
        ELSE IF dead
        THEN NotifierRaised([objs |-> [w.objs EXCEPT ![i] = queued], queues |-> queues])
        ELSE Watching([w.objs EXCEPT ![i] =
                          [queued EXCEPT !.running = TRUE, !.listening = TRUE,
                                         !.subscriptions = @ + 1]],
                      queues, qid)

\* the watch() of the API notifier without the check of the role
APINotifier_watch_unchecked(w, i) ==
    LET o == w.objs[i]
        qid == Len(w.queues) + 1
    IN  Watching([w.objs EXCEPT ![i] =
                     [o EXCEPT !.watchers = Append(@, qid),
                               !.subscriptions = IF ~o.running /\ @ = 0 THEN 1 ELSE @]],
                 Append(w.queues, Queue(WatcherQueueSize)), qid)

\* APINotifier.watch: a queue per watcher; the first creates the server task
APINotifier_watch(w, i) ==
    LET o == w.objs[i]
        qid == Len(w.queues) + 1
    IN  IF ~can_receive(w.objs, i) THEN NotifierRaised(w)
        ELSE Watching([w.objs EXCEPT ![i] =
                          [o EXCEPT !.watchers = Append(@, qid),
                                    !.subscriptions = IF ~o.running /\ @ = 0 THEN 1 ELSE @]],
                      Append(w.queues, Queue(WatcherQueueSize)), qid)

\* APINotifier._start_server, the server task
start_server(o) ==
    IF o.role \notin {RECEIVER, BOTH} \/ o.running THEN o
    ELSE [o EXCEPT !.running = TRUE, !.listening = TRUE]

\* SignalNotifier.watch: a queue per watcher; the first installs the handler
SignalNotifier_watch(w, i) ==
    LET o == w.objs[i]
        qid == Len(w.queues) + 1
    IN  IF ~can_receive(w.objs, i) THEN NotifierRaised(w)
        ELSE Watching([w.objs EXCEPT ![i] =
                          IF o.running THEN [o EXCEPT !.watchers = Append(@, qid)]
                          ELSE [o EXCEPT !.watchers = Append(@, qid), !.running = TRUE,
                                         !.listening = TRUE, !.subscriptions = @ + 1]],
                      Append(w.queues, Queue(WatcherQueueSize)), qid)

\* a reader task of a composite: the child it reads and the child's queue
\* (0: the task has not run yet, -1: the child's watch() failed)
ReaderTask(child) == [child |-> child, queue |-> 0]

\* CompositeNotifier._start_watching_underlying_notifiers
start_watching_underlying_notifiers(objs, k) ==
    IF objs[k].running THEN objs[k]
    ELSE [objs[k] EXCEPT
            !.running = TRUE,
            !.tasks = LET receiving == SelectSeq(objs[k].children,
                                                 LAMBDA c : can_receive(objs, c))
                      IN  @ \o [j \in DOMAIN receiving |-> ReaderTask(receiving[j])]]

\* CompositeNotifier.watch: a queue per watcher; the first starts the readers
CompositeNotifier_watch(w, k) ==
    LET o == w.objs[k]
        qid == Len(w.queues) + 1
        added == [w.objs EXCEPT ![k].watchers = Append(@, qid)]
    IN  IF ~can_receive(w.objs, k) THEN NotifierRaised(w)
        ELSE Watching([added EXCEPT ![k] =
                          IF Len(added[k].watchers) = 1 /\ ~o.running
                          THEN start_watching_underlying_notifiers(added, k)
                          ELSE @],
                      Append(w.queues, Queue(WatcherQueueSize)), qid)

\* watch() of the notifier i
watch(w, i, dead) ==
    CASE w.objs[i].type = REDIS -> RedisNotifier_watch(w, i, dead)
      [] w.objs[i].type = API -> APINotifier_watch(w, i)
      [] w.objs[i].type = SIGNAL -> SignalNotifier_watch(w, i)
      [] OTHER -> CompositeNotifier_watch(w, i)

\* a notify_update() that returned
Notified(objs, queues) ==
    [w |-> [objs |-> objs, queues |-> queues], ok |-> TRUE, error |-> "", queue |-> 0]

\* RedisNotifier.notify_update: publish the payload on the topic; dead is
\* whether Redis cannot be reached
RedisNotifier_notify_update(w, i, updated, dead) ==
    IF ~can_send(w.objs, i) THEN NotifierRaised(w)
    ELSE IF dead THEN NotifierRaised(w)
    ELSE Notified(broadcast(w.objs, REDIS, ChannelMessage(payload_of(updated), updated)),
                  w.queues)

\* the message reaches the servers of the other API notifiers
post_reload(objs, i, message) ==
    [j \in DOMAIN objs |->
        IF j # i /\ objs[j].type = API /\ objs[j].listening
        THEN [objs[j] EXCEPT !.inbox = Append(@, message)]
        ELSE objs[j]]

\* APINotifier.notify_update: POST <target_url>/_reload, the target being the
\* peer; dead is whether the target URL is missing or the request fails, and
\* a peer whose server does not listen refuses the connection
APINotifier_notify_update(w, i, updated, dead) ==
    IF ~can_send(w.objs, i) THEN NotifierRaised(w)
    ELSE IF dead \/ \E j \in DOMAIN w.objs :
                        j # i /\ w.objs[j].type = API /\ ~w.objs[j].listening
    THEN NotifierRaised(w)
    ELSE Notified(post_reload(w.objs, i, ChannelMessage(payload_of(updated), updated)),
                  w.queues)

\* SignalNotifier.notify_update: SIGHUP to the process of the PID file; dead
\* is whether the PID file or the process is missing
SignalNotifier_notify_update(w, i, updated, dead) ==
    IF ~can_send(w.objs, i) THEN NotifierRaised(w)
    ELSE IF dead THEN NotifierRaised(w)
    ELSE Notified(broadcast(w.objs, SIGNAL, ChannelMessage(<<>>, updated)), w.queues)

\* notify_update() of a notifier that is not a composite
notify_update_child(w, i, updated, dead) ==
    CASE w.objs[i].type = REDIS -> RedisNotifier_notify_update(w, i, updated, dead)
      [] w.objs[i].type = API -> APINotifier_notify_update(w, i, updated, dead)
      [] OTHER -> SignalNotifier_notify_update(w, i, updated, dead)

\* the outcome of the loop of CompositeNotifier.notify_update over its
\* children: the children it called, and the error if none succeeded
Broadcast(w, attempted) ==
    [w |-> w,
     ok |-> attempted = <<>> \/ \E j \in DOMAIN attempted : attempted[j].ok,
     error |-> IF attempted = <<>> \/ \E j \in DOMAIN attempted : attempted[j].ok
               THEN "" ELSE "NotifierError",
     queue |-> 0, attempted |-> attempted]

\* the loop that gives up at the first child that fails
RECURSIVE notify_children_until_failure(_, _, _, _, _, _)
notify_children_until_failure(w, k, updated, dead, j, attempted) ==
    IF j > Len(w.objs[k].children) THEN Broadcast(w, attempted)
    ELSE LET c == w.objs[k].children[j]
         IN  IF ~can_send(w.objs, c)
             THEN notify_children_until_failure(w, k, updated, dead, j + 1, attempted)
             ELSE LET r == notify_update_child(w, c, updated, c \in dead)
                      called == Append(attempted, [child |-> c, ok |-> r.ok])
                  IN  IF ~r.ok
                      THEN [Broadcast(r.w, called) EXCEPT !.ok = FALSE,
                                                          !.error = "NotifierError"]
                      ELSE notify_children_until_failure(r.w, k, updated, dead, j + 1,
                                                         called)

\* for notifier in self.notifiers: every child that can send is called, a
\* failure is remembered and the loop goes on
RECURSIVE notify_children(_, _, _, _, _, _)
notify_children(w, k, updated, dead, j, attempted) ==
    IF j > Len(w.objs[k].children) THEN Broadcast(w, attempted)
    ELSE LET c == w.objs[k].children[j]
         IN  IF ~can_send(w.objs, c)
             THEN notify_children(w, k, updated, dead, j + 1, attempted)
             ELSE LET r == notify_update_child(w, c, updated, c \in dead)
                  IN  notify_children(r.w, k, updated, dead, j + 1,
                                      Append(attempted, [child |-> c, ok |-> r.ok]))

\* CompositeNotifier.notify_update
CompositeNotifier_notify_update(w, k, updated, dead) ==
    IF ~can_send(w.objs, k)
    THEN [w |-> w, ok |-> FALSE, error |-> "NotifierError", queue |-> 0,
          attempted |-> <<>>]
    ELSE notify_children(w, k, updated, dead, 1, <<>>)

\* notify_update() of the notifier i; dead is the set of the notifiers whose
\* channel fails during the call
notify_update(w, i, updated, dead) ==
    IF w.objs[i].type = COMPOSITE
    THEN CompositeNotifier_notify_update(w, i, updated, dead)
    ELSE LET r == notify_update_child(w, i, updated, i \in dead)
         IN  [w |-> r.w, ok |-> r.ok, error |-> r.error, queue |-> 0,
              attempted |-> <<>>]

\* the loop of close() over the watchers: None is put on every watcher queue,
\* a full queue is skipped, and the watchers are forgotten
close_watchers(w, i) ==
    [objs |-> [w.objs EXCEPT ![i].watchers = <<>>],
     queues |-> notify_watchers(w.queues, w.objs[i].watchers, None)]

\* RedisNotifier.close: the listen task is cancelled, the subscription and
\* the client are closed
RedisNotifier_close(w, i) ==
    [w EXCEPT !.objs[i].closed = TRUE, !.objs[i].listening = FALSE]

\* APINotifier.close: the watchers are told, the server task is cancelled
APINotifier_close(w, i) ==
    LET told == close_watchers(w, i)
    IN  [told EXCEPT !.objs[i].closed = TRUE, !.objs[i].running = FALSE,
                     !.objs[i].listening = FALSE]

\* SignalNotifier.close: the watchers are told, the signal handler is restored
SignalNotifier_close(w, i) ==
    LET told == close_watchers(w, i)
    IN  [told EXCEPT !.objs[i].closed = TRUE, !.objs[i].running = FALSE,
                     !.objs[i].listening = FALSE]

\* close() of a notifier that is no composite
close_child(w, i) ==
    CASE w.objs[i].type = REDIS -> RedisNotifier_close(w, i)
      [] w.objs[i].type = API -> APINotifier_close(w, i)
      [] OTHER -> SignalNotifier_close(w, i)

RECURSIVE close_children(_, _, _)
\* the loop of CompositeNotifier.close over its notifiers
close_children(w, k, j) ==
    IF j > Len(w.objs[k].children) THEN w
    ELSE close_children(close_child(w, w.objs[k].children[j]), k, j + 1)

\* CompositeNotifier.close: the reader tasks are cancelled, the watchers are
\* told, the children are closed
CompositeNotifier_close(w, k) ==
    LET cancelled == [w EXCEPT !.objs[k].tasks = <<>>]
        told == close_watchers(cancelled, k)
        closed == close_children(told, k, 1)
    IN  [closed EXCEPT !.objs[k].closed = TRUE, !.objs[k].running = FALSE]

\* close() of the notifier i
close_notifier(w, i) ==
    IF w.objs[i].type = COMPOSITE THEN CompositeNotifier_close(w, i)
    ELSE close_child(w, i)

\* the value a receiver makes of a message: RedisNotifier._handle_messages and
\* reload_endpoint parse a payload and take none as the reload signal, the
\* signal handler knows the reload signal only
received(type, message) ==
    IF type = SIGNAL THEN None
    ELSE IF message.payload = <<>> THEN None
    ELSE Some(Mcp_loads(message.payload[1]))

\* the queues a receiver puts a message on: the one queue of a Redis notifier,
\* the watchers of the others
receiving_queues(o) ==
    IF o.type = REDIS THEN (IF o.queue = 0 THEN <<>> ELSE <<o.queue>>)
    ELSE o.watchers

\* the listener of the notifier i handles the next message of its channel
handle_message(w, i) ==
    LET o == w.objs[i]
        message == Head(o.inbox)
    IN  [objs |-> [w.objs EXCEPT ![i].inbox = Tail(@),
                                 ![i].heard = Append(@, received(o.type, message))],
         queues |-> notify_watchers(w.queues, receiving_queues(o),
                                    received(o.type, message))]

\* _watch_underlying_notifier up to its loop: queue = await notifier.watch()
reader_start(w, k, t, dead) ==
    LET r == watch(w, w.objs[k].tasks[t].child, dead)
    IN  [objs |-> [r.w.objs EXCEPT ![k].tasks[t].queue = IF r.ok THEN r.queue ELSE -1],
         queues |-> r.w.queues]

\* one turn of the loop of _watch_underlying_notifier: get a config from the
\* child's queue and forward it to the watchers
reader_forward(w, k, t) ==
    LET qid == w.objs[k].tasks[t].queue
        config == Head(w.queues[qid].items)
        taken == [w.queues EXCEPT ![qid].items = Tail(@)]
    IN  [objs |-> w.objs,
         queues |-> notify_watchers(taken, w.objs[k].watchers, config)]

\* NotifierRole(role_str) and NotifierType(type_str): the member of the value
enum_of(members, value) ==
    IF value \in members THEN [ok |-> TRUE, member |-> value]
    ELSE [ok |-> FALSE, member |-> ""]

\* str.upper on the names of the roles and of the types
upper(text) ==
    CASE text = "sender" -> "SENDER"
      [] text = "receiver" -> "RECEIVER"
      [] text = "both" -> "BOTH"
      [] text = "redis" -> "REDIS"
      [] text = "api" -> "API"
      [] text = "signal" -> "SIGNAL"
      [] text = "composite" -> "COMPOSITE"
      [] OTHER -> text

\* NotifierFactory.create_notifier: the role and the type are upper-cased and
\* looked up by value; the Redis and the API notifier are constructed without
\* the role
create_notifier(role_str, type_str) ==
    LET role == enum_of(Roles, upper(role_str))
        type == enum_of({REDIS, API, SIGNAL, COMPOSITE}, upper(type_str))
    IN  IF ~role.ok \/ ~type.ok \/ type.member = COMPOSITE
        THEN [ok |-> FALSE, error |-> "NotifierError", notifier |-> None]
        ELSE [ok |-> TRUE, error |-> "",
              notifier |-> Some(Notifier(type.member,
                                         IF type.member = SIGNAL THEN role.member ELSE BOTH,
                                         <<>>))]

-----------------------------------------------------------------------------
(* The notifiers of two replicas, and a composite notifier over two children *)

\* the configs a notification carries
NotifierConfigs == { [name |-> "c1", created_at |-> 1] }

\* the arguments of notify_update: the reload signal or a config
Updates == {None} \cup { Some(config) : config \in NotifierConfigs }

\* the roles of the two children of the composite
ChildRoles ==
    { <<BOTH, BOTH>>, <<SENDER, SENDER>>, <<RECEIVER, RECEIVER>>, <<BOTH, SENDER>> }

\* a notifier of any role and a receiver of the same backend, and a composite
\* over a Redis and a signal notifier
NotifierDeployments ==
    { <<Notifier(type, role, <<>>), Notifier(type, RECEIVER, <<>>)>> :
        type \in {REDIS, API, SIGNAL}, role \in Roles }
    \cup { <<Notifier(COMPOSITE, BOTH, <<2, 3>>), Notifier(REDIS, roles[1], <<>>),
             Notifier(SIGNAL, roles[2], <<>>)>> : roles \in ChildRoles }

\* the notifiers the tasks of the model call: those that are no child of a composite
Callable ==
    { i \in DOMAIN ntf.objs :
        \A k \in DOMAIN ntf.objs : \A j \in DOMAIN ntf.objs[k].children :
            ntf.objs[k].children[j] # i }

\* the notifiers and their queues
World == [objs |-> ntf.objs, queues |-> ntf.queues]

\* the notifiers as they are constructed; the gateway and the stores are idle
InitNotifier ==
    /\ state = EmptyState
    /\ heap = <<>>
    /\ hung = FALSE
    /\ builds = 0
    /\ last_build = [mcps |-> <<>>, old_state |-> EmptyState, old_heap |-> <<>>,
                     returned |-> FALSE, failed |-> {}, new_heap |-> <<>>]
    /\ sessions = {}
    /\ conns = <<>>
    /\ streams = <<>>
    /\ req = NoRequest
    /\ requests = 0
    /\ log = <<>>
    /\ InitStores
    /\ post = NoPost
    /\ \E objs \in NotifierDeployments : ntf = [NoNotifiers EXCEPT !.objs = objs]
    /\ loader = NoReload

\* a task calls watch() on the notifier i
NotifierWatch(i, dead) ==
    /\ ntf.watches < MaxWatches
    /\ dead => ntf.objs[i].type = REDIS
    /\ LET r == watch(World, i, dead)
       IN  ntf' = [ntf EXCEPT
                    !.objs = r.w.objs,
                    !.queues = r.w.queues,
                    !.handles = IF r.ok
                                THEN Append(@, [notifier |-> i, queue |-> r.queue,
                                                since |-> Len(ntf.objs[i].heard)])
                                ELSE @,
                    !.seen = IF r.ok THEN Append(@, <<>>) ELSE @,
                    !.last = [NoCall EXCEPT !.name = "watch", !.notifier = i,
                                            !.ok = r.ok, !.error = r.error],
                    !.watches = @ + 1]
    /\ UNCHANGED <<gateway_vars, store_vars, post>>

\* a task calls notify_update(updated) on the notifier i
NotifierNotify(i, updated, dead) ==
    /\ ntf.notifies < MaxNotifies
    /\ dead \subseteq (IF ntf.objs[i].type = COMPOSITE
                       THEN { ntf.objs[i].children[j] : j \in DOMAIN ntf.objs[i].children }
                       ELSE {i})
    /\ LET r == notify_update(World, i, updated, dead)
       IN  ntf' = [ntf EXCEPT
                    !.objs = r.w.objs,
                    !.queues = r.w.queues,
                    !.last = [NoCall EXCEPT !.name = "notify", !.notifier = i,
                                            !.updated = updated, !.ok = r.ok,
                                            !.error = r.error,
                                            !.attempted = r.attempted],
                    !.notifies = @ + 1]
    /\ UNCHANGED <<gateway_vars, store_vars, post>>

\* the server task of the API notifier i runs
ServerStarts(i) ==
    /\ ntf.objs[i].type = API
    /\ ntf.objs[i].subscriptions > 0
    /\ ~ntf.objs[i].running
    /\ ntf' = [ntf EXCEPT !.objs[i] = start_server(@)]
    /\ UNCHANGED <<gateway_vars, store_vars, post>>

\* the listener of the notifier i handles a message of its channel
HandleMessage(i) ==
    /\ ntf.objs[i].inbox # <<>>
    /\ ntf.objs[i].closed => ntf.objs[i].listening
    /\ LET w == handle_message(World, i)
       IN  ntf' = [ntf EXCEPT !.objs = w.objs, !.queues = w.queues]
    /\ UNCHANGED <<gateway_vars, store_vars, post>>

\* the reader task t of the composite k starts: it calls watch() on its child
ReaderStarts(k, t, dead) ==
    /\ ntf.objs[k].tasks[t].queue = 0
    /\ dead => ntf.objs[ntf.objs[k].tasks[t].child].type = REDIS
    /\ LET w == reader_start(World, k, t, dead)
       IN  ntf' = [ntf EXCEPT !.objs = w.objs, !.queues = w.queues]
    /\ UNCHANGED <<gateway_vars, store_vars, post>>

\* the reader task t of the composite k forwards a config of its child's queue
ReaderForwards(k, t) ==
    /\ ntf.objs[k].tasks[t].queue > 0
    /\ ntf.queues[ntf.objs[k].tasks[t].queue].items # <<>>
    /\ LET w == reader_forward(World, k, t)
       IN  ntf' = [ntf EXCEPT !.objs = w.objs, !.queues = w.queues]
    /\ UNCHANGED <<gateway_vars, store_vars, post>>

\* the watcher that holds the queue of handle h gets the next config of it
WatcherGets(h) ==
    /\ ntf.queues[ntf.handles[h].queue].items # <<>>
    /\ ntf' = [ntf EXCEPT
                !.queues[ntf.handles[h].queue].items = Tail(@),
                !.seen[h] = Append(@, Head(ntf.queues[ntf.handles[h].queue].items))]
    /\ UNCHANGED <<gateway_vars, store_vars, post>>

\* a task calls close() on the notifier i
NotifierClose(i) ==
    /\ ntf.closes < MaxCloses
    /\ ~ntf.objs[i].closed
    /\ LET w == close_notifier(World, i)
       IN  ntf' = [ntf EXCEPT
                    !.objs = w.objs,
                    !.queues = w.queues,
                    !.last = [NoCall EXCEPT !.name = "close", !.notifier = i],
                    !.closes = @ + 1]
    /\ UNCHANGED <<gateway_vars, store_vars, post>>

\* the gateway creates its notifier from its configuration, before it uses one
CreateNotifier(role_str, type_str) ==
    /\ ntf.creates < MaxCreates
    /\ ntf.watches = 0
    /\ ntf.notifies = 0
    /\ LET r == create_notifier(role_str, type_str)
       IN  ntf' = [ntf EXCEPT
                    !.objs = IF r.ok THEN Append(@, r.notifier[1]) ELSE @,
                    !.last = [NoCall EXCEPT !.name = "create", !.ok = r.ok,
                                            !.error = r.error,
                                            !.config = <<role_str, type_str>>,
                                            !.created = r.notifier],
                    !.creates = @ + 1]
    /\ UNCHANGED <<gateway_vars, store_vars, post>>

NextNotifier ==
    \/ \E role_str \in Roles, type_str \in {REDIS, API, SIGNAL} :
            CreateNotifier(role_str, type_str)
    \/ \E i \in Callable, dead \in BOOLEAN : NotifierWatch(i, dead)
    \/ \E i \in Callable, updated \in Updates, dead \in SUBSET DOMAIN ntf.objs :
            NotifierNotify(i, updated, dead)
    \/ \E i \in DOMAIN ntf.objs : ServerStarts(i)
    \/ \E i \in DOMAIN ntf.objs : HandleMessage(i)
    \/ \E k \in DOMAIN ntf.objs, dead \in BOOLEAN :
            \E t \in DOMAIN ntf.objs[k].tasks : ReaderStarts(k, t, dead)
    \/ \E k \in DOMAIN ntf.objs :
            \E t \in DOMAIN ntf.objs[k].tasks : ReaderForwards(k, t)
    \/ \E h \in DOMAIN ntf.handles : WatcherGets(h)

SpecNotifier == InitNotifier /\ [][NextNotifier]_vars

\* the notifiers with close(): every backend answers and every peer listens
NextClose ==
    \/ \E i \in Callable : NotifierClose(i)
    \/ \E i \in Callable : NotifierWatch(i, FALSE)
    \/ \E i \in Callable, updated \in Updates : NotifierNotify(i, updated, {})
    \/ \E i \in DOMAIN ntf.objs : ServerStarts(i)
    \/ \E i \in DOMAIN ntf.objs : HandleMessage(i)
    \/ \E k \in DOMAIN ntf.objs :
            \E t \in DOMAIN ntf.objs[k].tasks : ReaderStarts(k, t, FALSE)
    \/ \E k \in DOMAIN ntf.objs :
            \E t \in DOMAIN ntf.objs[k].tasks : ReaderForwards(k, t)
    \/ \E h \in DOMAIN ntf.handles : WatcherGets(h)

SpecClose == InitNotifier /\ [][NextClose]_vars

-----------------------------------------------------------------------------
(* The last build: S_old, S_new and the transports before and after it *)

\* a call of build_from_mcp has returned, and its result is the current State
Built == last_build.returned

S_old == last_build.old_state

\* the transports a State's Runtimes hold
TransportsOf(st) ==
    {st.runtime[p].transport : p \in DOMAIN st.runtime} \ {0}

\* transport t of S_old is the transport of the same prefix in the current State
Reused(t) ==
    \E p \in DOMAIN S_old.runtime \cap DOMAIN state.runtime :
        S_old.runtime[p].transport = t /\ state.runtime[p].transport = t

WasRunning(t) == last_build.old_heap[t].is_running

IsRunning(t) == last_build.new_heap[t].is_running

-----------------------------------------------------------------------------
(* C1 *)

\* C1: after build_from_mcp(C, S_old) returns S_new, every transport of S_old
\* is either reused by S_new at the same prefix or not running, and the build
\* has not stopped a transport it reuses.
C1_ReusedXorStopped ==
    Built =>
        \A t \in TransportsOf(S_old) :
            /\ Reused(t) \/ ~IsRunning(t)
            /\ ~(Reused(t) /\ WasRunning(t) /\ ~IsRunning(t))

-----------------------------------------------------------------------------
(* C2 *)

\* the prefixes at which both the old and the new State bind an MCP server
McpKept ==
    {p \in DOMAIN S_old.runtime \cap DOMAIN state.runtime :
        S_old.runtime[p].mcp_server # None /\ state.runtime[p].mcp_server # None}

\* the old and the new MCPServer agree on type, command, url and args
Agree(a, b) ==
    a.type = b.type /\ a.command = b.command /\ a.url = b.url /\ a.args = b.args

\* the last build was given the config list the old State was built from
SameConfigs == Built /\ builds >= 2 /\ last_build.mcps = S_old.mcps

C2_WitnessReplaced ==
    /\ Built
    /\ \E p \in McpKept : state.runtime[p].transport # S_old.runtime[p].transport

-----------------------------------------------------------------------------
(* C4 *)

\* the config list without the MCP servers whose transport cannot be created
WithoutUnsupported(mcps) ==
    [i \in DOMAIN mcps |->
        [mcps[i] EXCEPT !.servers =
            SelectSeq(@, LAMBDA sv : sv.type \in {"stdio", "sse", "streamable"})]]

\* C4: if creating or starting a server's transport fails for prefix p, the
\* build still returns, p is absent from the new runtime map, and every other
\* prefix has the Runtime it has without the failing server.
C4_FailedPrefixOmitted ==
    (builds > 0 /\ last_build.failed # {}) =>
        /\ last_build.returned
        /\ \A p \in last_build.failed : p \notin DOMAIN state.runtime
        /\ LET other == build_from_mcp(WithoutUnsupported(last_build.mcps), S_old,
                                       last_build.old_heap)
           IN  \A q \in DOMAIN state.runtime \ last_build.failed :
                   q \in DOMAIN other.runtime /\ other.runtime[q] = state.runtime[q]

-----------------------------------------------------------------------------
(* C5 *)

\* C5: every Runtime of a built State has exactly one of http_server and mcp_server.
C5_ExactlyOneServer ==
    Built =>
        \A p \in DOMAIN state.runtime :
            (state.runtime[p].http_server # None) # (state.runtime[p].mcp_server # None)

-----------------------------------------------------------------------------
(* C6 *)

\* the names of the tools of the Configs that route prefix p
ConfigToolNames(p) ==
    UNION { {c.tools[i].name : i \in DOMAIN c.tools} :
            c \in {state.mcps[k] : k \in {j \in DOMAIN state.mcps :
                        \E r \in DOMAIN state.mcps[j].routers :
                            state.mcps[j].routers[r].prefix = p}} }

\* C6: for each Runtime bound to an HTTPServer, the keys of tools are names of
\* its Config's tools, tools_schema has as many entries as tools, and
\* tools_schema lists the schemas of those tools in the order of HTTPServer.tools.
C6_ToolsSchemaMatchesTools ==
    Built =>
        \A p \in DOMAIN state.runtime :
            LET r == state.runtime[p]
            IN  r.http_server # None =>
                    /\ DOMAIN r.tools \subseteq ConfigToolNames(p)
                    /\ Len(r.tools_schema) = Cardinality(DOMAIN r.tools)
                    /\ r.tools_schema =
                         [i \in 1..Len(r.tools_schema) |->
                             to_tool_type(r.tools[
                                 SelectSeq(r.http_server[1].tools,
                                           LAMBDA n : n \in DOMAIN r.tools)[i]])]

-----------------------------------------------------------------------------
(* C7 *)

\* the transports that S_old and the current State both hold, with their prefix
KeptTransports ==
    {p \in DOMAIN S_old.runtime \cap DOMAIN state.runtime :
        /\ state.runtime[p].transport # 0
        /\ state.runtime[p].transport = S_old.runtime[p].transport}

\* an MCP server of the build's config list is routed at prefix p with policy on_start
OnStartAt(p) ==
    \E k \in DOMAIN last_build.mcps :
        \E i \in DOMAIN last_build.mcps[k].servers :
            /\ last_build.mcps[k].servers[i].policy = ON_START
            /\ \E r \in DOMAIN last_build.mcps[k].routers :
                  /\ last_build.mcps[k].routers[r].prefix = p
                  /\ last_build.mcps[k].routers[r].server = last_build.mcps[k].servers[i].name

C7_WitnessIdle ==
    /\ Built
    /\ \E p \in KeptTransports :
          /\ state.runtime[p].mcp_server[1].preinstalled
          /\ state.runtime[p].mcp_server[1].policy # ON_START
          /\ ~WasRunning(state.runtime[p].transport)

-----------------------------------------------------------------------------
(* C3 *)

\* C3: while the State is replaced during request handling, the lookups of
\* one request all read one State: a request never finds a prefix present in
\* one step and absent, or bound to another Runtime, in a later step.
C3_OneSnapshotPerRequest ==
    \A i, j \in DOMAIN req.seen :
        (i < j /\ req.seen[i].prefix = req.seen[j].prefix) =>
            req.seen[i].runtime = req.seen[j].runtime

-----------------------------------------------------------------------------
(* C8 *)

\* C8: a request initialize, ping, tools/list or tools/call posted to
\* <prefix>/message of a live session and handled with success is answered
\* 202 Accepted, and it has put exactly one event named message, carrying the
\* request's id, on the session's queue.
C8_AcceptedWithOneMessageEvent ==
    (req.pc = "done" /\ req.success) =>
        /\ req.status = 202
        /\ Len(req.enqueued) = 1
        /\ req.enqueued[1].event = "message"
        /\ req.enqueued[1].data.id = req.id

-----------------------------------------------------------------------------
(* C9 *)

\* the names of the events a session is sent
EventNames == {"message", "jsonrpc_response", "jsonrpc_error"}

\* how many events (or frames) of a sequence are named event
Count(events, event) == Len(SelectSeq(events, LAMBDA m : m.event = event))

\* the frames named event written on the streams s, s-1, .. 1 that read the
\* queue of session id
RECURSIVE FrameCount(_, _, _)
FrameCount(id, event, s) ==
    IF s = 0 THEN 0
    ELSE FrameCount(id, event, s - 1)
         + (IF streams[s].conn = id THEN Count(streams[s].frames, event) ELSE 0)

\* the SSE stream of session id is alive
StreamAlive(id) ==
    \E s \in DOMAIN streams :
        streams[s].conn = id /\ streams[s].kind = "sse" /\ streams[s].pc = "open"

C9_WitnessQueueFull ==
    /\ req.pc = "done" /\ req.success /\ req.enqueued = <<>>
    /\ Len(conns[req.conn].queue) = MaxQueue

-----------------------------------------------------------------------------
(* C10 *)

\* the frames of a stream that carry an event of the queue
DataFrames(s) ==
    SelectSeq(streams[s].frames, LAMBDA f : f.event \notin {"endpoint", "heartbeat"})

\* C10: a stream of a session writes the frames of two messages in the order
\* in which their sends succeeded, whatever the interleaving of the request
\* handlers with the stream and its heartbeats.
C10_FramesInSendOrder ==
    \A s \in DOMAIN streams :
        LET F == DataFrames(s)
            S == log[streams[s].conn].sent
        IN  \A i, j \in DOMAIN F :
                i < j => \E a, b \in DOMAIN S : a < b /\ S[a] = F[i] /\ S[b] = F[j]

\* the only stream of a session wrote the frames of two messages that were
\* queued together, and a heartbeat
C10_Witness ==
    \E s \in DOMAIN streams :
        /\ \A t \in DOMAIN streams : streams[t].conn = streams[s].conn => t = s
        /\ Len(DataFrames(s)) >= 2
        /\ streams[s].heartbeats >= 1
        /\ Len(log[streams[s].conn].sent) >= 3

-----------------------------------------------------------------------------
(* C11 *)

\* the messages a producer may send to a session
SendMessages ==
    { Message(event, id, "result") :
        event \in {"jsonrpc_response", "jsonrpc_error"}, id \in 1..MaxRequests }

\* C11: a session's queue never holds more than its maxsize; a send() on a full
\* queue of an open session fails and leaves the queue, the open flag and the
\* registration as they are, and a send() after one event was taken succeeds
C11_FullQueueRefusesSend ==
    \A id \in DOMAIN conns :
        /\ Len(conns[id].queue) <= MaxQueue
        /\ (Len(conns[id].queue) = MaxQueue /\ ~conns[id].closed) =>
              \A message \in SendMessages :
                /\ send(conns[id], message) = [c |-> conns[id], ok |-> FALSE]
                /\ LET sent == send(event_queue_get(conns[id]).c, message)
                   IN  /\ sent.ok
                       /\ sent.c.queue = Append(Tail(conns[id].queue), message)
        /\ id \in sessions => ~conns[id].closed

\* a request whose send() the full queue refused: the session is still open
\* and registered, and its queue holds the events it held
C11_Witness ==
    /\ req.pc = "done" /\ req.success /\ req.enqueued = <<>>
    /\ req.conn \in sessions
    /\ ~conns[req.conn].closed
    /\ Len(conns[req.conn].queue) = MaxQueue
    /\ Len(log[req.conn].sent) = MaxQueue

-----------------------------------------------------------------------------
(* C12 *)

\* C12: a closed session's queue is empty and stays so: close() empties the
\* queue, send() on a closed session fails and enqueues nothing, also when the
\* request that sends got the session before it was closed
C12_ClosedQueueStaysEmpty ==
    /\ [](\A id \in DOMAIN conns :
            /\ conns[id].closed =>
                  /\ conns[id].queue = <<>>
                  /\ \A message \in SendMessages :
                        send(conns[id], message) = [c |-> conns[id], ok |-> FALSE]
            /\ close(conns[id]).c.closed
            /\ close(conns[id]).c.queue = <<>>)
    /\ [][\A id \in DOMAIN conns :
            conns[id].closed => /\ conns'[id] = conns[id]
                                /\ log'[id].sent = log[id].sent]_vars

\* a request that got its session before the session was unregistered, and
\* sent its response after: nothing was enqueued
C12_Witness ==
    /\ req.pc = "done" /\ req.success /\ req.enqueued = <<>>
    /\ req.conn \notin sessions
    /\ conns[req.conn].closed
    /\ log[req.conn].drained # <<>>

-----------------------------------------------------------------------------
(* C13 *)

\* the Meta a caller registers the id with now
MetaNow(id) == MetaAt(id, "/t/a", "sse", now)

\* C13: on both stores, register() with the id of a registered session fails
\* and leaves the store as it is: the session it holds and that session's queue
C13_RegisterExistingFails ==
    \A id \in StoreIds :
        /\ id \in DOMAIN mem.conns =>
              LET m == MemoryStore_register(mem, MetaNow(id))
              IN  ~m.out.ok /\ m.store = mem
        /\ id \in red.ids =>
              LET r == RedisStore_register(red, 1, MetaNow(id))
              IN  ~r.out.ok /\ r.store = red

\* the half of C13 that is about the MemoryStore
C13_MemoryRegisterExistingFails ==
    \A id \in DOMAIN mem.conns :
        MemoryStore_register(mem, MetaNow(id)) =
            [store |-> mem, out |-> Raised("ValueError"), conn |-> 0]

-----------------------------------------------------------------------------
(* C14 *)

\* C14: on the MemoryStore, register() of an id that is not registered and
\* then unregister() of it leave the ids and the sessions of the store as they
\* were, and get() of the id then fails with SessionNotFoundError
C14_RegisterUnregisterRoundTrip ==
    \A id \in StoreIds \ DOMAIN mem.conns :
        LET r == MemoryStore_register(mem, MetaNow(id))
            u == MemoryStore_unregister(r.store, id)
        IN  /\ r.out.ok /\ u.out.ok
            /\ u.store.conns = mem.conns
            /\ Cardinality(DOMAIN u.store.conns) = Cardinality(DOMAIN mem.conns)
            /\ \A j \in DOMAIN mem.conns : u.store.objs[u.store.conns[j]] = mem.objs[mem.conns[j]]
            /\ MemoryStore_list(u.store) = MemoryStore_list(mem)
            /\ MemoryStore_get(u.store, id).out = Raised("SessionNotFoundError")

\* a session was registered and unregistered while another one, with an event
\* on its queue, stayed registered
C14_Witness ==
    /\ op.name = "unregister" /\ op.mem.ok
    /\ op.id \notin DOMAIN mem.conns
    /\ \E j \in DOMAIN mem.conns : mem.objs[mem.conns[j]].queue # <<>>

-----------------------------------------------------------------------------
(* C15 *)

\* C15: on both stores, if get(id) succeeds then list() holds a session of
\* that id whose created_at is not later than now, and get(id) fails with
\* SessionNotFoundError for an id that was never registered or was unregistered
C15_GetAgreesWithList ==
    \A id \in StoreIds :
        /\ MemoryStore_get(mem, id).out.ok =>
              \E meta \in MemoryStore_list(mem) : meta.id = id /\ meta.created_at <= now
        /\ id \notin op.reg_mem =>
              MemoryStore_get(mem, id).out = Raised("SessionNotFoundError")
        /\ \A r \in Replicas :
              /\ RedisStore_get(red, r, id).out.ok =>
                    \E meta \in RedisStore_list(red) :
                        meta.id = id /\ meta.created_at <= now
              /\ id \notin op.reg_red =>
                    RedisStore_get(red, r, id).out = Raised("SessionNotFoundError")

\* list() was called, some time after a session was registered, on stores that
\* handed out two connections
C15_Witness ==
    /\ op.name = "list"
    /\ \E meta \in op.mem_list : meta.created_at < now
    /\ \E meta \in op.red_list : meta.created_at < now
    /\ op.reg_mem # {} /\ op.reg_red # {}
    /\ Len(handles) >= 2

-----------------------------------------------------------------------------
(* C16 *)

\* C16: called in step on a single replica, the MemoryStore and the
\* RedisStore answer every call alike (both return or both raise), list() the
\* same ids, and hold the same live ids
C16_StoresAgree ==
    ~op.remote =>
        /\ op.mem.ok = op.red.ok
        /\ { meta.id : meta \in op.mem_list } = { meta.id : meta \in op.red_list }
        /\ DOMAIN mem.conns = red.ids

\* both stores reject register() of a registered id
C16_BothRejectRegistered ==
    (~op.remote /\ op.name = "register" /\ ~op.mem.ok) => ~op.red.ok

\* both stores fail send() on a connection whose session was unregistered
C16_BothFailSendUnregistered ==
    (~op.remote /\ op.name = "send" /\ op.id \notin op.reg_mem /\ op.id \notin op.reg_red) =>
        ~op.mem.ok /\ ~op.red.ok

\* both stores fail send() when the queue of the session is full
C16_BothFailSendFull ==
    (~op.remote /\ op.name = "send" /\ ~op.mem.ok
        /\ ~mem.objs[handles[op.h].mem].closed) => ~op.red.ok

-----------------------------------------------------------------------------
(* C17 *)

\* the stores were created as the gateway creates them: by create_store
CreatedByGateway == \A r \in Replicas : ~red.subscribed[r]

\* no update is on its way to a listener
Quiescent == \A r \in Replicas : red.inbox[r] = <<>>

\* C17: with the RedisStore the gateway creates, once no update is on its way
\* every message that send() accepted is on the queue of the connection that
\* replica 1 registered for the session, once and in order, and on no other
C17_SentReachesRegisteredQueue ==
    (CreatedByGateway /\ Quiescent) =>
        \A k \in DOMAIN red.objs : red.objs[k].queue = op.expected[k]

\* the same for stores created by create_redis_store, whose listeners run
C17_SentReachesRegisteredQueueListening ==
    (~CreatedByGateway /\ Quiescent) =>
        \A k \in DOMAIN red.objs : red.objs[k].queue = op.expected[k]

-----------------------------------------------------------------------------
(* C18 *)

RECURSIVE SegmentsFrom(_, _)
\* the number of non-empty segments of a path: the places where a character
\* that is no slash follows a slash, or starts the path
SegmentsFrom(path, i) ==
    IF i > Len(path) THEN 0
    ELSE SegmentsFrom(path, i + 1) +
         (IF path[i] # "/" /\ (i = 1 \/ path[i - 1] = "/") THEN 1 ELSE 0)

Segments(path) == SegmentsFrom(path, 1)

\* the request leaves the sessions and the transports as they are
SessionsAndTransportsUntouched ==
    /\ sessions' = sessions
    /\ conns' = conns
    /\ streams' = streams
    /\ heap' = heap

\* C18: a request whose path has less than two non-empty segments is answered
\* 400, a request whose prefix has no Runtime in the State is answered 404, and
\* neither registers, changes or removes a session or calls a transport
C18_BadPathTouchesNothing ==
    [][post'.n # post.n =>
        /\ Segments(post'.path) < 2 =>
              /\ post'.status = 400
              /\ SessionsAndTransportsUntouched
        /\ (Segments(post'.path) >= 2 /\ post'.prefix \notin DOMAIN state.runtime) =>
              /\ post'.status = 404
              /\ SessionsAndTransportsUntouched]_vars

\* a request on a path of one segment was answered 400 while a session was
\* registered
C18_Witness ==
    /\ post.status = 400 /\ post.error = "Invalid path"
    /\ Segments(post.path) = 1
    /\ sessions # {}

\* a request on a prefix no router has was answered 404 while a session was
\* registered
C18_WitnessPrefix ==
    /\ post.status = 404 /\ post.error = "Invalid prefix"
    /\ post.prefix = "/x/y"
    /\ sessions # {}

-----------------------------------------------------------------------------
(* C19 *)

\* the request just answered was routed to handle_post
PostedToMcp ==
    /\ post'.n # post.n
    /\ post'.prefix \in DOMAIN state.runtime
    /\ post'.endpoint = "mcp"

\* C19: an initialize request on <prefix>/mcp without the header Mcp-Session-Id
\* adds exactly one session to the store, of type streamable and of the prefix
\* the request was routed by, and the response's Mcp-Session-Id is its id
C19_InitializeRegistersAtPrefix ==
    [][(PostedToMcp /\ post'.method = MCP_METHOD_INITIALIZE /\ post'.session_id = 0) =>
        /\ Len(conns') = Len(conns) + 1
        /\ post'.session = Len(conns')
        /\ sessions' = sessions \cup {post'.session}
        /\ \A id \in DOMAIN conns : conns'[id] = conns[id]
        /\ conns'[post'.session].meta.type = "streamable"
        /\ conns'[post'.session].meta.prefix = post'.prefix]_vars

\* C19 without the prefix: one session more, of type streamable, its id returned
C19_InitializeRegistersOne ==
    [][(PostedToMcp /\ post'.method = MCP_METHOD_INITIALIZE /\ post'.session_id = 0) =>
        /\ Len(conns') = Len(conns) + 1
        /\ post'.session = Len(conns')
        /\ sessions' = sessions \cup {post'.session}
        /\ \A id \in DOMAIN conns : conns'[id] = conns[id]
        /\ conns'[post'.session].meta.type = "streamable"]_vars

-----------------------------------------------------------------------------
(* C20 *)

\* C20: an initialize request on <prefix>/mcp whose Mcp-Session-Id names a
\* registered session is rejected as an invalid request; no session is added,
\* and the store and the session it names are as they were
C20_InitializeTwiceRejected ==
    [][(PostedToMcp /\ post'.method = MCP_METHOD_INITIALIZE
            /\ post'.session_id \in sessions) =>
        /\ post'.status = 400
        /\ post'.error = "Invalid Request: Server already initialized"
        /\ post'.session = 0
        /\ sessions' = sessions
        /\ conns' = conns
        /\ ~conns'[post'.session_id].closed]_vars

\* an initialize request that named a registered session was rejected
C20_Witness ==
    /\ post.method = MCP_METHOD_INITIALIZE
    /\ post.session_id \in sessions
    /\ post.status = 400
    /\ post.error = "Invalid Request: Server already initialized"
    /\ ~conns[post.session_id].closed

-----------------------------------------------------------------------------
(* C21 *)

\* the streams that served the session id
StreamsOf(id) == { s \in DOMAIN streams : streams[s].conn = id }

\* the session id was served by a stream, and each of its streams has ended
StreamsEnded(id) ==
    /\ StreamsOf(id) # {}
    /\ \A s \in StreamsOf(id) : streams[s].pc = "closed"

\* C21: a session that streams served, of GET <prefix>/sse or of
\* GET <prefix>/mcp, is unregistered and its queue closed once the clients of
\* all its streams have disconnected: none stays in the store without a stream
C21_EndedStreamsUnregister ==
    \A id \in DOMAIN conns :
        StreamsEnded(id) => id \notin sessions /\ conns[id].closed

\* the same for the sessions that GET <prefix>/sse registered
C21_EndedSseStreamsUnregister ==
    \A id \in DOMAIN conns :
        (StreamsEnded(id) /\ conns[id].meta.type = "sse") =>
            id \notin sessions /\ conns[id].closed

-----------------------------------------------------------------------------
(* C22 *)

\* the request in flight is a tools/call on a session that was found, and the
\* State it looked its prefix up in has a Runtime of a supported backend
ToolCallOnRuntime ==
    /\ req.method = MCP_METHOD_TOOLS_CALL
    /\ req.conn # 0
    /\ Len(req.seen) >= 2
    /\ LET lookup == req.seen[Len(req.seen)]
       IN  /\ lookup.runtime # None
           /\ lookup.runtime[1].backend_proto \in {"http", "stdio", "sse", "streamable"}

\* C22: a tools/call on a live session whose prefix has a Runtime is answered
\* with status 200 and a result, whatever fails while the tool is executed:
\* never with another status, a JSON-RPC error, or not at all
C22_ToolFailureIsResult ==
    ToolCallOnRuntime =>
        /\ req.pc # "blocked"
        /\ req.pc = "done" => req.status = 200 /\ req.success

-----------------------------------------------------------------------------
(* C23 *)

\* the next step of the request decides a tools/call whose tool is unknown:
\* absent from the tools of an HTTP Runtime, or from its transport's cache
UnknownToolCalled ==
    /\ req.method = MCP_METHOD_TOOLS_CALL
    /\ req.conn # 0
    /\ \/ /\ req.pc = "body"
          /\ get_proto_type(state, conns[req.conn].meta.prefix) = Some("http")
          /\ req.tool \notin DOMAIN state.runtime[conns[req.conn].meta.prefix].tools
       \/ /\ req.pc = "backend"
          /\ req.transport # 0
          /\ ~has_tool(heap[req.transport], req.tool)

\* the request was answered 200 with the result "tool not found", and nothing
\* reached the backend
AnsweredNotFound(r) ==
    /\ r.pc = "done"
    /\ r.status = 200
    /\ r.success
    /\ r.result = "not_found"
    /\ ~r.contacted

\* C23: a tools/call of an unknown tool is answered with status 200 and an
\* error result saying the tool was not found, without a request or a session
\* to the backend
C23_UnknownToolNotFound ==
    [][(UnknownToolCalled /\ req' # req) => AnsweredNotFound(req')]_vars

\* C23 for the transports whose start() succeeds
C23_UnknownToolNotFoundStarted ==
    [][(/\ UnknownToolCalled
        /\ req' # req
        /\ req.transport # 0 => transport_has_started(heap[req.transport]).out = "ok")
            => AnsweredNotFound(req')]_vars

-----------------------------------------------------------------------------
(* C24 *)

\* the request is the first on its transport after a tools/call during which
\* the transport was stopped, it names a tool of the backend, and its backend
\* call is over
FollowsStoppedCall ==
    /\ req.follows # 0
    /\ req.transport = req.follows
    /\ req.method \in {MCP_METHOD_TOOLS_LIST, MCP_METHOD_TOOLS_CALL}
    /\ req.tool \in BackendTools
    /\ req.pc \in {"done", "blocked"}

\* a tools/call during which its transport was stopped returns an error result
C24_StoppedCallIsError ==
    (req.stopped /\ req.pc # "session") => req.pc = "done" /\ req.result = "isError"

\* the call that follows starts the transport again and reaches the backend
C24_NextCallReachesBackend ==
    FollowsStoppedCall => req.pc = "done" /\ req.contacted

\* the tools/list that follows starts the transport again and reaches the backend
C24_NextListReachesBackend ==
    (FollowsStoppedCall /\ req.method = MCP_METHOD_TOOLS_LIST) =>
        req.pc = "done" /\ req.contacted

\* C24: when stop() runs on a transport during a tools/call, the call returns
\* an error result, and the next tools/call or tools/list on the transport
\* starts it again and reaches the backend
C24_StopDuringCall ==
    /\ C24_StoppedCallIsError
    /\ C24_NextCallReachesBackend

-----------------------------------------------------------------------------
(* C25 *)

\* the step is a call of watch() on a notifier that cannot receive
WatchesWithoutReceiving ==
    /\ ntf'.watches = ntf.watches + 1
    /\ ~can_receive(ntf.objs, ntf'.last.notifier)

\* the step is a call of notify_update() on a notifier that cannot send
NotifiesWithoutSending ==
    /\ ntf'.notifies = ntf.notifies + 1
    /\ ~can_send(ntf.objs, ntf'.last.notifier)

\* the call of the step failed with NotifierError and changed no notifier, no
\* queue and no channel
FailedAndTouchedNothing ==
    /\ ~ntf'.last.ok
    /\ ntf'.last.error = "NotifierError"
    /\ ntf'.last.attempted = <<>>
    /\ ntf'.objs = ntf.objs
    /\ ntf'.queues = ntf.queues
    /\ ntf'.handles = ntf.handles

\* C25: watch() on a notifier that cannot receive and notify_update() on one
\* that cannot send fail with NotifierError; no queue is added, no listener is
\* started and nothing is published, posted or signalled
C25_WrongRoleFailsAndTouchesNothing ==
    [][(WatchesWithoutReceiving \/ NotifiesWithoutSending) => FailedAndTouchedNothing]_vars

\* watch() was called on a notifier that cannot receive
C25_Witness ==
    /\ ntf.last.name = "watch"
    /\ ~can_receive(ntf.objs, ntf.last.notifier)
    /\ ~ntf.last.ok

\* notify_update() was called on a notifier that cannot send, after a peer
\* started to listen
C25_WitnessNotify ==
    /\ ntf.last.name = "notify"
    /\ ~can_send(ntf.objs, ntf.last.notifier)
    /\ ~ntf.last.ok
    /\ \E j \in DOMAIN ntf.objs : ntf.objs[j].listening

-----------------------------------------------------------------------------
(* C26 *)

\* the notify_update() of the step returned, on a notifier of one backend
NotifiedOn(i) ==
    /\ ntf'.notifies = ntf.notifies + 1
    /\ ntf'.last.notifier = i
    /\ ntf'.last.ok
    /\ ntf.objs[i].type # COMPOSITE

\* the peers the notification of the notifier i reaches: the notifiers of its
\* backend that listen (for the API backend, the peer the target URL names)
PeersOf(i) ==
    { j \in DOMAIN ntf.objs :
        /\ ntf.objs[j].type = ntf.objs[i].type
        /\ ntf.objs[j].listening
        /\ ntf.objs[i].type = API => j # i }

\* the listener of the notifier i handles a message in the step
Handles(i) ==
    /\ ntf.objs[i].inbox # <<>>
    /\ ntf'.objs[i].inbox = Tail(ntf.objs[i].inbox)

\* what the watcher queues of a backend yield for notify_update(updated)
Yielded(type, updated) == IF type = SIGNAL THEN None ELSE updated

C26_WitnessSignal ==
    \E h \in DOMAIN ntf.handles :
        /\ ntf.objs[ntf.handles[h].notifier].type = SIGNAL
        /\ ntf.seen[h] = <<None>>
        /\ ntf.last.name = "notify"
        /\ ntf.last.updated # None
        /\ ntf.notifies = 1

-----------------------------------------------------------------------------
(* C27 *)

\* the handles watch() returned on the notifier i
HandlesOf(i) == { h \in DOMAIN ntf.handles : ntf.handles[h].notifier = i }

\* nothing is on its way to the watchers of the notifier i
Drained(i) ==
    /\ ntf.objs[i].inbox = <<>>
    /\ \A h \in HandlesOf(i) : ntf.queues[ntf.handles[h].queue].items = <<>>

\* C27: with two or more watchers of one Redis notifier, each watcher gets
\* every notification the notifier received since it watches, and the
\* notifier holds one subscription
C27_EachWatcherGetsEveryNotification ==
    \A i \in DOMAIN ntf.objs :
        (ntf.objs[i].type = REDIS /\ Cardinality(HandlesOf(i)) >= 2) =>
            /\ ntf.objs[i].subscriptions = 1
            /\ Drained(i) =>
                    \A h \in HandlesOf(i) :
                        ntf.seen[h] = SubSeq(ntf.objs[i].heard, ntf.handles[h].since + 1,
                                             Len(ntf.objs[i].heard))

\* the part of C27 that holds: one subscription per Redis notifier
C27_OneSubscription ==
    \A i \in DOMAIN ntf.objs : ntf.objs[i].type = REDIS => ntf.objs[i].subscriptions <= 1

-----------------------------------------------------------------------------
(* C28 *)

\* C28: a watcher queue never holds more than its capacity of notifications
C28_WatcherQueuesBounded ==
    \A q \in DOMAIN ntf.queues : Len(ntf.queues[q].items) <= WatcherQueueSize

\* the queues of the API, signal and composite notifiers are bounded
C28_BoundedQueuesBounded ==
    \A q \in DOMAIN ntf.queues :
        ntf.queues[q].maxsize > 0 => Len(ntf.queues[q].items) <= WatcherQueueSize

\* a notification is dropped for the watchers whose queue is full, and is put
\* on the queue of every other watcher
C28_DroppedForFullQueuesOnly ==
    [][\A i \in DOMAIN ntf.objs :
        Handles(i) =>
            LET qs == receiving_queues(ntf.objs[i])
            IN  \A n \in DOMAIN qs :
                    LET q == ntf.queues[qs[n]]
                    IN  IF q.maxsize > 0 /\ Len(q.items) >= q.maxsize
                        THEN ntf'.queues[qs[n]] = q
                        ELSE Len(ntf'.queues[qs[n]].items) = Len(q.items) + 1
      ]_vars

-----------------------------------------------------------------------------
(* C29 *)

\* the last call is notify_update() on a composite that can send
CompositeNotified ==
    /\ ntf.last.name = "notify"
    /\ ntf.objs[ntf.last.notifier].type = COMPOSITE
    /\ can_send(ntf.objs, ntf.last.notifier)

\* C29: notify_update() of a composite calls every child that can send, also
\* after a child failed, and raises NotifierError exactly when every child it
\* called failed
C29_CompositeNotifiesEveryChild ==
    CompositeNotified =>
        LET k == ntf.last.notifier
            senders == SelectSeq(ntf.objs[k].children, LAMBDA c : can_send(ntf.objs, c))
            called == ntf.last.attempted
        IN  /\ [j \in DOMAIN called |-> called[j].child] = senders
            /\ ~ntf.last.ok <=> \A j \in DOMAIN called : ~called[j].ok
            /\ ~ntf.last.ok => ntf.last.error = "NotifierError"

\* the first child failed, the second was called and succeeded
C29_Witness ==
    /\ CompositeNotified
    /\ Len(ntf.last.attempted) = 2
    /\ ~ntf.last.attempted[1].ok
    /\ ntf.last.attempted[2].ok
    /\ ntf.last.ok

\* every child that was called failed
C29_WitnessAllFailed ==
    /\ CompositeNotified
    /\ Len(ntf.last.attempted) = 2
    /\ ~ntf.last.attempted[1].ok
    /\ ~ntf.last.attempted[2].ok
    /\ ~ntf.last.ok

-----------------------------------------------------------------------------
(* C30 *)

\* C30: for every role and every type of a notifier, create_notifier returns
\* a notifier of the type that can send and receive as the role says
C30_FactoryCreatesNotifierOfRole ==
    ntf.last.name = "create" =>
        /\ ntf.last.ok
        /\ ntf.last.created # None
        /\ LET created == <<ntf.last.created[1]>>
           IN  /\ created[1].type = ntf.last.config[2]
               /\ can_send(created, 1) <=> ntf.last.config[1] \in {SENDER, BOTH}
               /\ can_receive(created, 1) <=> ntf.last.config[1] \in {RECEIVER, BOTH}

-----------------------------------------------------------------------------
(* C31 *)

\* the step is a reload that returns a State to initialize_state
ReloadReturns == loader.pc = "idle" /\ loader'.pc = "returned"

\* the transports of the prefixes that have a Runtime in the State old and none
\* in the State new
DroppedTransports(old, new) ==
    { old.runtime[p].transport : p \in DOMAIN old.runtime \ DOMAIN new.runtime } \ {0}

\* the transport holds a connection or counts as running
Live(t) == t.is_running \/ t.conn

\* C31: when a reload returns, the transport of every prefix that had a Runtime
\* in the old State and has none in the new State is stopped, also when the
\* config list is empty or the load failed
C31_ReloadStopsDroppedTransports ==
    [][ReloadReturns =>
        \A t \in DroppedTransports(loader'.old_state, loader'.new_state) : ~Live(heap'[t])
      ]_vars

\* the part of C31 that holds: a reload that loaded configs stops them
C31_BuildStopsDroppedTransports ==
    [][(ReloadReturns /\ loader'.loaded # <<>>) =>
        \A t \in DroppedTransports(loader'.old_state, loader'.new_state) : ~Live(heap'[t])
      ]_vars

-----------------------------------------------------------------------------
(* C33 *)

\* C33: a rebuild stops no transport of the State that is published while it
\* runs: the transports of the dropped prefixes are stopped after the new
\* State is published
C33_DroppedStoppedAfterPublished ==
    [][ReloadReturns =>
        \A t \in TransportsOf(state) : Live(heap[t]) => Live(heap'[t])
      ]_vars

\* the part of C33 that holds: the transports of the on_start servers of the
\* new State run when the loader returns it, before it is published
C33_StartedBeforePublished ==
    [][ReloadReturns =>
        \A p \in DOMAIN loader'.new_state.runtime :
            LET rt == loader'.new_state.runtime[p]
            IN  (rt.mcp_server # None /\ rt.transport # 0 /\ rt.mcp_server[1].policy = ON_START)
                    => Live(heap'[rt.transport])
      ]_vars

-----------------------------------------------------------------------------
(* C36 *)

\* C36: the Runtime that serves a request is the one of the prefix of the
\* request's URL, never the one of another prefix the session was created at
C36_ServedByRuntimeOfUrlPrefix ==
    \A i \in DOMAIN req.seen :
        req.seen[i].runtime # None => req.seen[i].prefix = req.seen[1].prefix

-----------------------------------------------------------------------------
(* C37 *)

\* the step receives a request for a prefix the State does not contain
RequestForUnknownPrefix ==
    /\ requests' = requests + 1
    /\ req'.seen[1].prefix \notin DOMAIN state.runtime

\* C37: handling a request leaves State.runtime as it is, only the State a
\* reload publishes replaces it; a request for a prefix the State does not
\* contain is answered 404
C37_RequestsLeaveRuntime ==
    [][/\ state' # state => (loader.pc = "returned" /\ state' = loader.new_state)
       /\ RequestForUnknownPrefix => (req'.pc = "done" /\ req'.status = 404)
      ]_vars

\* a request found its prefix, the State was replaced before its body was
\* read, and its second lookup found no Runtime
C37_Witness ==
    /\ req.pc = "done"
    /\ Len(req.seen) = 2
    /\ req.seen[1].runtime # None
    /\ req.seen[2].runtime = None
    /\ req.seen[2].prefix \notin DOMAIN state.runtime

\* a tools/call was served by the Runtime of an HTTP server, which
\* call_http_tool takes with get_runtime
C37_WitnessHttp ==
    /\ req.pc = "done"
    /\ req.method = MCP_METHOD_TOOLS_CALL
    /\ Len(req.seen) = 2
    /\ req.seen[2].runtime # None
    /\ req.seen[2].runtime[1].backend_proto = "http"

-----------------------------------------------------------------------------
(* C39 *)

\* C39: the State a reload returns after the load of the configs failed has
\* a Runtime for every prefix of the current State
C39_LoadErrorKeepsPrefixes ==
    (loader.pc = "returned" /\ loader.failed) =>
        DOMAIN loader.old_state.runtime \subseteq DOMAIN loader.new_state.runtime

-----------------------------------------------------------------------------
(* C32 *)

\* the policy of the server routed at prefix p of the State, if it is an MCP
\* server with a transport
PolicyAt(p) ==
    LET rt == state.runtime[p]
    IN  IF rt.mcp_server # None /\ rt.transport # 0 THEN rt.mcp_server[1].policy ELSE ""

\* C32: a listTools or callTool leaves the transport of an on_start server
\* running, and leaves the transport of an on_demand server stopped
C32_PolicyDecidesRunning ==
    [][builds' = builds =>
        \A p \in DOMAIN state.runtime :
            LET t == state.runtime[p].transport
            IN  /\ (PolicyAt(p) = ON_START /\ Live(heap[t])) => Live(heap'[t])
                /\ (PolicyAt(p) = ON_DEMAND /\ heap'[t] # heap[t]) => ~Live(heap'[t])
      ]_vars

\* the part of C32 about on_start servers
C32_OnStartKeepsRunning ==
    [][builds' = builds =>
        \A p \in DOMAIN state.runtime :
            (PolicyAt(p) = ON_START /\ Live(heap[state.runtime[p].transport]))
                => Live(heap'[state.runtime[p].transport])
      ]_vars

\* the part of C32 about on_demand servers
C32_OnDemandStopped ==
    [][builds' = builds =>
        \A p \in DOMAIN state.runtime :
            (PolicyAt(p) = ON_DEMAND
                /\ heap'[state.runtime[p].transport] # heap[state.runtime[p].transport])
                => ~Live(heap'[state.runtime[p].transport])
      ]_vars

-----------------------------------------------------------------------------
(* C34 *)

\* C34: while the body of callTool is in its session, the transport has its
\* connection: a start has completed and no stop has completed since
C34_BodyHasConnection ==
    req.pc = "session" =>
        /\ heap[req.transport].conn
        /\ ~heap[req.transport].locked

-----------------------------------------------------------------------------
(* C35 *)

\* C35: start() returns or raises and releases the transport's lock, and the
\* build that called it returns
C35_StartReleasesLock ==
    /\ ~hung
    /\ \A t \in DOMAIN heap : ~heap[t].locked

-----------------------------------------------------------------------------
(* C38 *)

\* the request is the second of two consecutive calls of one tool on one
\* stdio or SSE transport, the first of which the backend answered
SecondCallAnswered ==
    /\ req.pc = "done"
    /\ req.method = MCP_METHOD_TOOLS_CALL
    /\ req.repeats # 0
    /\ req.transport = req.repeats
    /\ heap[req.transport].kind \in {"stdio", "sse"}

\* C38: the second of two consecutive calls of a tool on a stdio or SSE
\* transport reaches the backend and is not answered "not found"
C38_SecondCallReachesBackend ==
    SecondCallAnswered => (req.result # "not_found" /\ req.contacted)

-----------------------------------------------------------------------------
(* C40 *)

\* the values the watcher of handle h got or still has in its queue
Observed(h) == ntf.seen[h] \o ntf.queues[ntf.handles[h].queue].items

\* some listener received a reload signal: a message without a config
ReloadSignalReceived ==
    \E j \in DOMAIN ntf.objs : \E n \in DOMAIN ntf.objs[j].heard : ntf.objs[j].heard[n] = None

\* C40: a watcher of a composite, API or signal notifier observes null only
\* when a reload signal was received; close() shows it none
C40_NullOnlyForReloadSignal ==
    \A h \in DOMAIN ntf.handles :
        (/\ ntf.objs[ntf.handles[h].notifier].type \in {COMPOSITE, API, SIGNAL}
         /\ \E n \in DOMAIN Observed(h) : Observed(h)[n] = None)
            => ReloadSignalReceived

\* the watcher of handle h was told of the close: its queue is no queue of
\* the watchers of its notifier any more
Forgotten(h) ==
    LET i == ntf.handles[h].notifier
    IN  /\ ntf.objs[i].type \in {COMPOSITE, API, SIGNAL}
        /\ ntf.objs[i].closed
        /\ \A n \in DOMAIN ntf.objs[i].watchers :
                ntf.objs[i].watchers[n] # ntf.handles[h].queue

\* the part of C40 that holds: once close() has forgotten a watcher queue,
\* nothing more is put on it
C40_NothingPutAfterClose ==
    [][\A h \in DOMAIN ntf.handles :
        Forgotten(h) => Len(ntf'.queues[ntf.handles[h].queue].items)
                            <= Len(ntf.queues[ntf.handles[h].queue].items)
      ]_vars

\* a watcher got a null of a notifier that was closed and heard no signal
C40_Witness ==
    /\ ~ReloadSignalReceived
    /\ \E h \in DOMAIN ntf.handles :
        /\ Forgotten(h)
        /\ \E n \in DOMAIN ntf.seen[h] : ntf.seen[h][n] = None

====
